---- MODULE Spec2Model ----
(***************************************************************************)
(* State-machine model of the Mr. Tutor Discord bot (src/main.py): the     *)
(* rate limiter, the bot availability switch, the acceptance gate, the     *)
(* per-user conversation history and the command handlers that use them.   *)
(*                                                                         *)
(* The bot runs on one cooperative event loop: a handler runs atomically   *)
(* from one await to the next, so every action below is one such segment   *)
(* of a handler, and `tasks` holds the handlers suspended at an await.     *)
(* Time is the wall clock in whole seconds.                                *)
(***************************************************************************)
EXTENDS Integers, Sequences, FiniteSets, TLC

\* ------------------------------------------------------------------ bounds
\* the wall clock at start-up (seconds since the epoch; any positive value)
StartTime == 1000
\* how far the clock runs in the availability specification
BotHorizon == 180
\* handlers that may be in flight at once
NumSlots == 2
\* the per-minute specification: how far the clock runs, commands invoked
MinuteHorizon == 120
MinuteRequests == 4
\* the per-hour specification: how far the clock runs, commands invoked
HourHorizon == 3600
HourRequests == 62
\* the user-limit specification: how far the clock runs in short steps,
\* commands invoked
LimitHorizon == 60
LimitRequests == 4
\* the expiry specification: how far the clock runs, commands invoked
ExpiryHorizon == 7200
ExpiryRequests == 3
\* the gate specification: how far the clock runs, commands invoked
GateHorizon == 120
GateRequests == 2
\* the acceptance specification: commands invoked
AcceptRequests == 3
\* commands invoked in the history specification
HistRequests == 27
\* user turns left without a reply that one history may hold there
HistFailures == 1
\* the admin commands: seconds of clock
AdminHorizon == 60
\* the check specification: seconds of clock, commands invoked
CheckHorizon == 120
CheckRequests == 4
\* the rejection specification: seconds of clock, commands invoked
RejectHorizon == 60
RejectRequests == 3
\* the pipeline specification: seconds of clock, commands invoked
PipeHorizon == 30
PipeRequests == 2
\* the burst specification: seconds of clock, commands invoked
BurstHorizon == 60
BurstRequests == 3
\* the gateway specification: commands invoked
GatewayRequests == 2
ResumeHorizon == 30
ResumeRequests == 2
\* the clear specification: commands invoked
ClearRequests == 3
\* the pruning specification: seconds of clock, commands invoked
PruneHorizon == 5400
PruneRequests == 3
\* the restart specification: seconds of clock, commands invoked
RestartHorizon == 30
RestartRequests == 2
\* the isolation specification: seconds of clock, commands invoked
IsoHorizon == 60
IsoRequests == 4
\* the quota specification: commands invoked
QuotaRequests == 2
\* the timer specification: seconds of clock, and the seconds of it in
\* which the admin still disables the bot
TimerHorizon == 300
TimerDisableBy == 60

\* ------------------------------------------------------- program constants
None == -1
MAX_HISTORY_LENGTH == 50
MINUTE_WINDOW == 60
TEN_MINUTE_WINDOW == 600
HOUR_WINDOW == 3600
ACCEPTANCE_DAYS == 30
SECONDS_PER_DAY == 86400
SECONDS_PER_HOUR == 3600
SECONDS_PER_MINUTE == 60
LOOP_SLEEP == 60
VIEW_TIMEOUT == 300

Users == {"admin", "mod", "alice", "bob"}
ADMIN_IDS == {"admin"}
\* members holding the role named ADMIN_ROLE_NAME
AdminRoleMembers == {"mod"}

\* COMMAND_MAP: command name -> (use_tutor, command_type); the model name
\* plays no part in any decision and is left out.
COMMAND_MAP ==
  [ t            |-> [use_tutor |-> TRUE,  command_type |-> "normal"],
    t_plus       |-> [use_tutor |-> TRUE,  command_type |-> "plus"],
    t_minus      |-> [use_tutor |-> TRUE,  command_type |-> "minus"],
    t_image      |-> [use_tutor |-> FALSE, command_type |-> "image"],
    t_image_plus |-> [use_tutor |-> FALSE, command_type |-> "imageplus"],
    tn           |-> [use_tutor |-> FALSE, command_type |-> "nonnormal"],
    tn_plus      |-> [use_tutor |-> FALSE, command_type |-> "nonplus"],
    tn_minus     |-> [use_tutor |-> FALSE, command_type |-> "nonminus"] ]

CommandNames == DOMAIN COMMAND_MAP
CommandTypes == {COMMAND_MAP[c].command_type : c \in CommandNames}
is_image_gen(command_type) == command_type \in {"image", "imageplus"}

Slots == 1..NumSlots

VARIABLES
  now,                    \* datetime.now().timestamp()
  bot_state,              \* {"enabled", "disable_until"}
  bot_state_file,         \* bot_state.json
  rate_limits,            \* {"global": {type: rule}, "users": {uid: {type: rule}}}
  rate_limits_file,       \* rate_limits.json
  user_messages,          \* {uid: {type: [timestamps]}}
  user_acceptances,       \* {uid: timestamp}
  user_acceptances_file,  \* user_acceptances.json
  conversation_history,   \* {uid: [messages]}; the domain is the keys present
  tasks,                  \* the handlers in flight, one per slot
  views,                  \* the acceptance prompts, one per slot
  loop_wake,              \* when check_bot_state_loop's sleep ends
  invocations,            \* commands invoked so far (numbers the requests)
  last                    \* the last call that returned: what, for whom, its result

vars == <<now, bot_state, bot_state_file, rate_limits, rate_limits_file,
          user_messages, user_acceptances, user_acceptances_file,
          conversation_history, tasks, views, loop_wake, invocations, last>>

\* ----------------------------------------------------------------- helpers
\* Python truthiness of an optional timestamp: None and 0 are false
Truthy(x) == x # None /\ x # 0

\* mutant: every identity passes
is_admin_everyone(user_id) == user_id \in Users

is_admin(user_id) ==
  \/ user_id \in ADMIN_IDS
  \/ user_id \in AdminRoleMembers

\* --------------------------------------------------------- initial values
DefaultBotState == [enabled |-> TRUE, disable_until |-> None]
Absent == [absent |-> TRUE]
DefaultRateLimits ==
  [global |-> [c \in CommandTypes |-> Absent],
   users  |-> [u \in Users |-> [c \in CommandTypes |-> Absent]]]
\* check_rate_limit's reason None; a reason is the message's scope, the words
\* of its window in brackets, and the command type it names
NoReason == [scope |-> "none", window |-> <<>>, command_type |-> "none"]
IdleTask ==
  [pc |-> "idle", path |-> "none", user |-> "none", cmd |-> "none",
   query |-> FALSE, attach |-> "none", contents |-> FALSE,
   can_proceed |-> FALSE, reason |-> NoReason, view |-> 0, view_n |-> 0,
   n |-> 0,
   recorded |-> 0, dispatched |-> 0, sent |-> <<>>, minutes |-> 0]
NoView == [open |-> FALSE, user_id |-> "none", cmd |-> "none", query |-> FALSE,
           attach |-> "none", path |-> "none", n |-> 0, timeout_at |-> 0,
           resumed |-> 0, cancelled |-> FALSE]
\* `reply` is the message the call answered with
NoCall == [op |-> "none", user |-> "none", ok |-> FALSE, changed |-> FALSE,
           reply |-> "none"]

\* the state after the module is loaded and load_persistent_data has read
\* the three files `rl`, `bs` and `ua`
load_persistent_data(rl, bs, ua) ==
  /\ rate_limits = rl /\ rate_limits_file = rl
  /\ bot_state = bs /\ bot_state_file = bs
  /\ user_acceptances = ua /\ user_acceptances_file = ua
  /\ user_messages = [u \in Users |-> [c \in CommandTypes |-> <<>>]]
  /\ conversation_history = <<>>
  /\ tasks = [h \in Slots |-> IdleTask]
  /\ views = [h \in Slots |-> NoView]
  /\ invocations = 0
  /\ last = NoCall

NoAcceptances == [u \in Users |-> None]


\* ------------------------------------------------------------ rate limiter
\* a rule as admin_set_limit / admin_set_user_limit store it; a key that is
\* missing from the JSON object (or an expiry of None) is None here
Rule(pm, p10, ph, exp) ==
  [per_minute |-> pm, per_10min |-> p10, per_hour |-> ph, expires |-> exp]

\* mutant: a timestamp exactly `window` old still counts
CountWithin_inclusive(timestamps, t, window) ==
  Cardinality({i \in 1..Len(timestamps) : t - timestamps[i] <= window})

\* mutant: a timestamp of this very instant (a request still in flight)
\* does not count yet
CountWithin_settled(timestamps, t, window) ==
  Cardinality({i \in 1..Len(timestamps) :
                 /\ t - timestamps[i] < window
                 /\ t - timestamps[i] > 0})

\* len([ts for ts in timestamps if now - ts < window])
CountWithin(timestamps, t, window) ==
  Cardinality({i \in 1..Len(timestamps) : t - timestamps[i] < window})

\* mutant: a timestamp exactly an hour old is kept
prune_old_timestamps_inclusive(um, t) ==
  [u \in DOMAIN um |-> [c \in DOMAIN um[u] |->
      LET Keep(ts) == t - ts <= HOUR_WINDOW IN SelectSeq(um[u][c], Keep)]]

\* lines 182-187: every user's and type's list keeps what is under an hour old
prune_old_timestamps(um, t) ==
  [u \in DOMAIN um |-> [c \in DOMAIN um[u] |->
      LET Keep(ts) == t - ts < HOUR_WINDOW IN SelectSeq(um[u][c], Keep)]]

\* mutant: a window is filled only when the count exceeds the limit
violated_window_strict(rule, timestamps, t) ==
  IF rule.per_minute # None
     /\ CountWithin(timestamps, t, MINUTE_WINDOW) > rule.per_minute
  THEN <<"per", "minute">>
  ELSE IF rule.per_10min # None
     /\ CountWithin(timestamps, t, TEN_MINUTE_WINDOW) > rule.per_10min
  THEN <<"per", "10", "minutes">>
  ELSE IF rule.per_hour # None
     /\ CountWithin(timestamps, t, HOUR_WINDOW) > rule.per_hour
  THEN <<"per", "hour">>
  ELSE <<>>

\* the first window of `rule` that `timestamps` fill, as the words the
\* message puts in brackets, or <<>>
violated_window(rule, timestamps, t) ==
  IF rule.per_minute # None
     /\ CountWithin(timestamps, t, MINUTE_WINDOW) >= rule.per_minute
  THEN <<"per", "minute">>
  ELSE IF rule.per_10min # None
     /\ CountWithin(timestamps, t, TEN_MINUTE_WINDOW) >= rule.per_10min
  THEN <<"per", "10", "minutes">>
  ELSE IF rule.per_hour # None
     /\ CountWithin(timestamps, t, HOUR_WINDOW) >= rule.per_hour
  THEN <<"per", "hour">>
  ELSE <<>>

\* mutant: a rule is still in force at the very second it expires
user_rule_expired_late(rl, user_id, command_type, t) ==
  /\ rl.users[user_id][command_type] # Absent
  /\ Truthy(rl.users[user_id][command_type].expires)
  /\ t > rl.users[user_id][command_type].expires

\* line 194: the user's rule for this type exists and has run out
user_rule_expired(rl, user_id, command_type, t) ==
  /\ rl.users[user_id][command_type] # Absent
  /\ Truthy(rl.users[user_id][command_type].expires)
  /\ t >= rl.users[user_id][command_type].expires

\* lines 195-196: the table check_rate_limit leaves
rate_limits_after_check(rl, user_id, command_type, t) ==
  IF user_rule_expired(rl, user_id, command_type, t)
  THEN [rl EXCEPT !.users[user_id][command_type] = Absent]
  ELSE rl

\* what the user's rule alone, and the global rule alone, say
user_rule_verdict(rl, um, user_id, command_type, t) ==
  IF rl.users[user_id][command_type] = Absent
  THEN <<>>
  ELSE violated_window(rl.users[user_id][command_type],
                       um[user_id][command_type], t)

\* mutant: the global rule counts the timestamps of every user
global_rule_verdict_all_users(rl, um, user_id, command_type, t) ==
  IF rl.global[command_type] = Absent
  THEN <<>>
  ELSE violated_window(rl.global[command_type],
                       um["admin"][command_type] \o um["mod"][command_type]
                         \o um["alice"][command_type]
                         \o um["bob"][command_type], t)

global_rule_verdict(rl, um, user_id, command_type, t) ==
  IF rl.global[command_type] = Absent
  THEN <<>>
  ELSE violated_window(rl.global[command_type],
                       um[user_id][command_type], t)

\* mutant: a user rule that allows the request settles it, the global rule
\* is not looked at
check_rate_limit_ret_user_settles(rl, um, user_id, command_type, t) ==
  LET uv == user_rule_verdict(rl, um, user_id, command_type, t)
      gv == global_rule_verdict(rl, um, user_id, command_type, t)
  IN IF uv # <<>>
     THEN [can_proceed |-> FALSE,
           reason |-> [scope |-> "user", window |-> uv,
                       command_type |-> command_type]]
     ELSE IF rl.users[user_id][command_type] = Absent /\ gv # <<>>
     THEN [can_proceed |-> FALSE,
           reason |-> [scope |-> "global", window |-> gv,
                       command_type |-> command_type]]
     ELSE [can_proceed |-> TRUE, reason |-> NoReason]

\* check_rate_limit's return value (can_proceed, reason), given the table
\* and the usage log as they are after the pruning and the expiry removal
check_rate_limit_ret(rl, um, user_id, command_type, t) ==
  LET uv == user_rule_verdict(rl, um, user_id, command_type, t)
      gv == global_rule_verdict(rl, um, user_id, command_type, t)
  IN IF uv # <<>>
     THEN [can_proceed |-> FALSE,
           reason |-> [scope |-> "user", window |-> uv,
                       command_type |-> command_type]]
     ELSE IF gv # <<>>
     THEN [can_proceed |-> FALSE,
           reason |-> [scope |-> "global", window |-> gv,
                       command_type |-> command_type]]
     ELSE [can_proceed |-> TRUE, reason |-> NoReason]

\* mutant: the timestamp is left for a later step to append
record_message_deferred(um, user_id, command_type, t) == um

\* record_message
record_message(um, user_id, command_type, t) ==
  [um EXCEPT ![user_id][command_type] = Append(@, t)]

\* --------------------------------------------------------- acceptance gate
\* mutant: an acceptance exactly 30 days old has already lapsed
needs_acceptance_early(ua, user_id, t) ==
  \/ ua[user_id] = None
  \/ t - ua[user_id] >= ACCEPTANCE_DAYS * SECONDS_PER_DAY

needs_acceptance(ua, user_id, t) ==
  \/ ua[user_id] = None
  \/ t - ua[user_id] > ACCEPTANCE_DAYS * SECONDS_PER_DAY

\* ----------------------------------------------------- conversation store
\* conversation_history[user_id] of the defaultdict
History(ch, user_id) == IF user_id \in DOMAIN ch THEN ch[user_id] ELSE <<>>

\* conversation_history[user_id][-MAX_HISTORY_LENGTH:] when over the cap
truncate_history(h) ==
  IF Len(h) > MAX_HISTORY_LENGTH
  THEN SubSeq(h, Len(h) - MAX_HISTORY_LENGTH + 1, Len(h))
  ELSE h

\* mutant: the error text of a failed call is stored as the assistant turn
query_poe_stores_error(ch, user_id, content, reply_ok) ==
  LET with_user == truncate_history(
          Append(History(ch, user_id), [role |-> "user", content |-> content]))
  IN (user_id :> Append(with_user, [role |-> "assistant", content |-> content]))
     @@ ch

\* query_poe: the user's message is appended and the list cut to the cap;
\* the client is called; its reply, when it returns one, is appended
query_poe(ch, user_id, content, reply_ok) ==
  LET with_user == truncate_history(
          Append(History(ch, user_id), [role |-> "user", content |-> content]))
      after == IF reply_ok
               THEN Append(with_user, [role |-> "assistant", content |-> content])
               ELSE with_user
  IN (user_id :> after) @@ ch

\* ------------------------------------------------------- bot availability
\* check_bot_state: the state it leaves, and the value it returns
\* mutant: the guard on disable_until is dropped
check_bot_state_reenables_noguard(bs, t) ==
  /\ ~bs.enabled
  /\ t >= bs.disable_until

\* mutant: a deadline that is set re-enables whatever the clock reads
check_bot_state_reenables_any_time(bs, t) ==
  /\ ~bs.enabled
  /\ Truthy(bs.disable_until)

check_bot_state_reenables(bs, t) ==
  /\ ~bs.enabled
  /\ Truthy(bs.disable_until)
  /\ t >= bs.disable_until

\* mutant: the deadline is left in place on re-enabling
check_bot_state_after_keeps_deadline(bs, t) ==
  IF check_bot_state_reenables(bs, t)
  THEN [bs EXCEPT !.enabled = TRUE]
  ELSE bs

check_bot_state_after(bs, t) ==
  IF check_bot_state_reenables(bs, t)
  THEN [enabled |-> TRUE, disable_until |-> None]
  ELSE bs

\* mutant: the re-enabled state is not saved
check_bot_state_nosave ==
  /\ bot_state' = check_bot_state_after(bot_state, now)
  /\ bot_state_file' = bot_state_file

\* the call as a step: bot_state and, when it re-enables, bot_state.json
check_bot_state ==
  /\ bot_state' = check_bot_state_after(bot_state, now)
  /\ bot_state_file' = IF check_bot_state_reenables(bot_state, now)
                       THEN bot_state' ELSE bot_state_file

check_bot_state_ret == check_bot_state_after(bot_state, now).enabled

\* mutant: the loop sleeps and wakes but never calls check_bot_state
check_bot_state_loop_idle ==
  /\ now >= loop_wake
  /\ UNCHANGED <<bot_state, bot_state_file>>
  /\ loop_wake' = now + LOOP_SLEEP
  /\ last' = [op |-> "check_bot_state_loop", user |-> "none",
              ok |-> bot_state.enabled, changed |-> FALSE, reply |-> "none"]
  /\ UNCHANGED <<now, rate_limits, rate_limits_file, user_messages,
                 user_acceptances, user_acceptances_file,
                 conversation_history, tasks, views, invocations>>

\* check_bot_state_loop: one turn of `while True: check_bot_state(); sleep(60)`
check_bot_state_loop ==
  /\ now >= loop_wake
  /\ check_bot_state
  /\ loop_wake' = now + LOOP_SLEEP
  /\ last' = [op |-> "check_bot_state_loop", user |-> "none",
              ok |-> check_bot_state_ret, changed |-> bot_state' # bot_state,
              reply |-> "none"]
  /\ UNCHANGED <<now, rate_limits, rate_limits_file, user_messages,
                 user_acceptances, user_acceptances_file,
                 conversation_history, tasks, views, invocations>>

\* on_message for a message that is no command: process_commands does
\* nothing, then the availability check runs (its result gates nothing)
on_message(author) ==
  /\ check_bot_state
  /\ last' = [op |-> "on_message", user |-> author,
              ok |-> check_bot_state_ret, changed |-> bot_state' # bot_state,
              reply |-> "none"]
  /\ UNCHANGED <<now, rate_limits, rate_limits_file, user_messages,
                 user_acceptances, user_acceptances_file,
                 conversation_history, tasks, views, loop_wake, invocations>>

\* admin_toggle_bot up to its await: the state is changed in memory, the
\* reply is sent, and save_bot_state runs only after the send returns
toggled_bot_state(minutes, t) ==
  [enabled |-> FALSE,
   disable_until |-> IF minutes > 0 THEN t + minutes * SECONDS_PER_MINUTE ELSE None]

admin_toggle_bot(h, caller, minutes) ==
  /\ tasks[h].pc \in {"idle", "done"}
  /\ IF is_admin(caller)
     THEN /\ bot_state' = toggled_bot_state(minutes, now)
          /\ tasks' = [tasks EXCEPT ![h] =
                [IdleTask EXCEPT !.pc = "toggle_send", !.user = caller,
                                 !.minutes = minutes]]
          /\ last' = last
     ELSE /\ bot_state' = bot_state
          /\ tasks' = [tasks EXCEPT ![h] =
                [IdleTask EXCEPT !.pc = "done", !.user = caller,
                                 !.sent = <<"access_denied">>]]
          /\ last' = [op |-> "admin_toggle_bot", user |-> caller, ok |-> FALSE,
                      changed |-> FALSE, reply |-> "access_denied"]
  /\ UNCHANGED <<now, bot_state_file, rate_limits, rate_limits_file,
                 user_messages, user_acceptances, user_acceptances_file,
                 conversation_history, views, loop_wake, invocations>>

\* admin_toggle_bot after the send: save_bot_state()
admin_toggle_bot_save(h) ==
  /\ tasks[h].pc = "toggle_send"
  /\ bot_state_file' = bot_state
  /\ tasks' = [tasks EXCEPT ![h] =
        [@ EXCEPT !.pc = "done", !.sent = <<"disabled">>]]
  /\ last' = [op |-> "admin_toggle_bot", user |-> tasks[h].user, ok |-> TRUE,
              changed |-> bot_state_file' # bot_state_file,
              reply |-> "disabled"]
  /\ UNCHANGED <<now, bot_state, rate_limits, rate_limits_file,
                 user_messages, user_acceptances, user_acceptances_file,
                 conversation_history, views, loop_wake, invocations>>

\* admin_enable_bot: state, save, then the reply (nothing follows the send)
admin_enable_bot(caller) ==
  /\ IF is_admin(caller)
     THEN /\ bot_state' = [enabled |-> TRUE, disable_until |-> None]
          /\ bot_state_file' = bot_state'
     ELSE UNCHANGED <<bot_state, bot_state_file>>
  /\ last' = [op |-> "admin_enable_bot", user |-> caller, ok |-> is_admin(caller),
              changed |-> bot_state' # bot_state,
              reply |-> IF is_admin(caller) THEN "enabled" ELSE "access_denied"]
  /\ UNCHANGED <<now, rate_limits, rate_limits_file, user_messages,
                 user_acceptances, user_acceptances_file,
                 conversation_history, tasks, views, loop_wake, invocations>>

\* the clock advances by d seconds
Tick(d) ==
  /\ now' = now + d
  /\ UNCHANGED <<bot_state, bot_state_file, rate_limits, rate_limits_file,
                 user_messages, user_acceptances, user_acceptances_file,
                 conversation_history, tasks, views, loop_wake, invocations,
                 last>>

\* ------------------------------------------------------ the chat commands
botVars == <<bot_state, bot_state_file>>
rateVars == <<rate_limits, rate_limits_file>>
acceptVars == <<user_acceptances, user_acceptances_file>>

\* lines 415-427: where the handler goes once the attachments are in
after_attachments_pc(query, contents, image) ==
  IF ~query /\ ~contents THEN "send_noinput"
  ELSE IF image THEN "img_thinking"
  ELSE "thinking"

\* mutant: the prompt is due for every text command, tutor or not
acceptance_due_any_text(use_tutor, image, ua, user_id, t) ==
  ~image /\ needs_acceptance(ua, user_id, t)

\* line 375: the acceptance prompt is due
acceptance_due(use_tutor, image, ua, user_id, t) ==
  ~use_tutor /\ ~image /\ needs_acceptance(ua, user_id, t)

\* mutant: the usage is recorded whatever the rate limiter said
may_record_always(can_proceed, due) == TRUE

\* mutant: the usage is never recorded
may_record_never(can_proceed, due) == FALSE

\* lines 367-402: record_message is reached only past both early returns
may_record(can_proceed, due) == can_proceed /\ ~due

\* process_chat_command from its entry to its first await (lines 366-413),
\* for the task `rec` that carries the call's arguments
chat_start(h, rec) ==
  LET command_type == COMMAND_MAP[rec.cmd].command_type
      use_tutor == COMMAND_MAP[rec.cmd].use_tutor
      image == is_image_gen(command_type)
      pruned == prune_old_timestamps(user_messages, now)
      rl == rate_limits_after_check(rate_limits, rec.user, command_type, now)
      ret == check_rate_limit_ret(rl, pruned, rec.user, command_type, now)
      due == acceptance_due(use_tutor, image, user_acceptances, rec.user, now)
      rec_ok == may_record(ret.can_proceed, due)
      pc == IF ~ret.can_proceed THEN "send_denied"
            ELSE IF due THEN "send_prompt"
            ELSE IF rec.attach # "none" /\ ~image THEN "attachments"
            ELSE after_attachments_pc(rec.query, FALSE, image)
  IN /\ rate_limits' = rl
     /\ rate_limits_file' =
          IF user_rule_expired(rate_limits, rec.user, command_type, now)
          THEN rl ELSE rate_limits_file
     /\ user_messages' =
          IF rec_ok THEN record_message(pruned, rec.user, command_type, now)
          ELSE pruned
     /\ tasks' = [tasks EXCEPT ![h] =
          [rec EXCEPT !.pc = pc, !.can_proceed = ret.can_proceed,
                      !.reason = ret.reason,
                      !.recorded = IF rec_ok THEN 1 ELSE 0]]

\* a command arrives: by a `$` message (path "prefix", through on_message's
\* process_commands) or by a slash interaction (path "slash")
process_chat_command(h, path, user_id, cmd, query, attach) ==
  /\ tasks[h].pc \in {"idle", "done"}
  /\ invocations' = invocations + 1
  /\ chat_start(h, [IdleTask EXCEPT !.path = path, !.user = user_id,
                      !.cmd = cmd, !.query = query, !.attach = attach,
                      !.n = invocations + 1])
  /\ UNCHANGED <<now, botVars, acceptVars, conversation_history, views,
                 loop_wake, last>>

\* process_attachments returns: a download that failed adds no content
process_attachments(h) ==
  /\ tasks[h].pc = "attachments"
  /\ LET contents == tasks[h].attach = "file"
     IN tasks' = [tasks EXCEPT ![h] =
          [@ EXCEPT !.contents = contents,
                    !.pc = after_attachments_pc(tasks[h].query, contents,
                                                FALSE)]]
  /\ UNCHANGED <<now, botVars, rateVars, user_messages, acceptVars,
                 conversation_history, views, loop_wake, invocations, last>>

\* the "thinking" message is out: query_poe runs to its end (it is not a
\* coroutine), the client answering (reply_ok) or raising
text_generation(h, reply_ok) ==
  /\ tasks[h].pc = "thinking"
  /\ conversation_history' =
       query_poe(conversation_history, tasks[h].user, tasks[h].n, reply_ok)
  /\ tasks' = [tasks EXCEPT ![h] =
       [@ EXCEPT !.dispatched = 1,
                 !.pc = IF reply_ok THEN "send_reply" ELSE "send_error"]]
  /\ UNCHANGED <<now, botVars, rateVars, user_messages, acceptVars, views,
                 loop_wake, invocations, last>>

\* generate_image: the client is called, nothing is stored
image_generation(h, reply_ok) ==
  /\ tasks[h].pc = "img_thinking"
  /\ tasks' = [tasks EXCEPT ![h] =
       [@ EXCEPT !.dispatched = 1,
                 !.pc = IF reply_ok THEN "send_image" ELSE "send_image_failed"]]
  /\ UNCHANGED <<now, botVars, rateVars, user_messages, acceptVars,
                 conversation_history, views, loop_wake, invocations, last>>

SendPcs == {"send_denied", "send_prompt", "send_noinput", "send_reply",
            "send_error", "send_image", "send_image_failed"}

\* the handler's last send returns and so does the handler: a prompt that
\* was sent is open; a handler resumed by a prompt stops that prompt
\* (line 604); for a `$` message on_message goes on to check_bot_state
handler_return(h) ==
  /\ tasks[h].pc \in SendPcs
  /\ tasks' = [tasks EXCEPT ![h] =
       [@ EXCEPT !.pc = "done", !.sent = <<tasks[h].pc>>]]
  /\ LET opened == IF tasks[h].pc = "send_prompt"
                   THEN [views EXCEPT ![h] =
                          [open |-> TRUE, user_id |-> tasks[h].user,
                           cmd |-> tasks[h].cmd, query |-> tasks[h].query,
                           attach |-> tasks[h].attach, path |-> tasks[h].path,
                           n |-> tasks[h].n,
                           timeout_at |-> now + VIEW_TIMEOUT, resumed |-> 0,
                           cancelled |-> FALSE]]
                   ELSE views
         v == tasks[h].view
     IN views' = IF v # 0 /\ opened[v].n = tasks[h].view_n
                 THEN [opened EXCEPT ![v].open = FALSE]
                 ELSE opened
  /\ IF tasks[h].path = "prefix"
     THEN check_bot_state
     ELSE UNCHANGED botVars
  /\ last' = [op |-> "process_chat_command", user |-> tasks[h].user,
              ok |-> tasks[h].dispatched = 1, changed |-> FALSE,
              reply |-> tasks[h].pc]
  /\ UNCHANGED <<now, rateVars, user_messages, acceptVars,
                 conversation_history, loop_wake, invocations>>

\* ------------------------------------------------- the acceptance prompt
\* mutant: the press stores nothing
store_acceptance_nothing(ua, user_id, t) == ua

\* line 599: the acceptance of this instant replaces what was stored
store_acceptance(ua, user_id, t) == [ua EXCEPT ![user_id] = t]

\* accept_button up to its await: another identity is turned away; the
\* requester's acceptance is stored and saved
accept_button(h, v, presser) ==
  /\ tasks[h].pc \in {"idle", "done"}
  /\ views[v].open /\ now < views[v].timeout_at
  /\ views' = [views EXCEPT ![v].timeout_at = now + VIEW_TIMEOUT]
  /\ IF presser # views[v].user_id
     THEN /\ tasks' = [tasks EXCEPT ![h] =
               [IdleTask EXCEPT !.pc = "done", !.user = presser,
                                !.sent = <<"not_for_you">>]]
          /\ UNCHANGED acceptVars
          /\ last' = [op |-> "accept_button", user |-> presser, ok |-> FALSE,
                      changed |-> FALSE, reply |-> "not_for_you"]
     ELSE /\ user_acceptances' =
               store_acceptance(user_acceptances, presser, now)
          /\ user_acceptances_file' = user_acceptances'
          /\ tasks' = [tasks EXCEPT ![h] =
               [IdleTask EXCEPT !.pc = "accept_send", !.user = presser,
                  !.cmd = views[v].cmd, !.query = views[v].query,
                  !.attach = views[v].attach, !.path = "view",
                  !.n = views[v].n, !.view = v, !.view_n = views[v].n]]
          /\ last' = [op |-> "accept_button", user |-> presser, ok |-> TRUE,
                      changed |-> user_acceptances[presser] # now,
                      reply |-> "accepted"]
  /\ UNCHANGED <<now, botVars, rateVars, user_messages,
                 conversation_history, loop_wake, invocations>>

\* accept_button after its send: the callback runs process_chat_command
\* again with the original arguments
accept_resume(h) ==
  /\ tasks[h].pc = "accept_send"
  /\ chat_start(h, tasks[h])
  /\ views' = [views EXCEPT ![tasks[h].view].resumed =
                 IF views[tasks[h].view].n = tasks[h].view_n THEN @ + 1 ELSE @]
  /\ UNCHANGED <<now, botVars, acceptVars, conversation_history, loop_wake,
                 invocations, last>>

\* cancel_button: the requester's press stops the prompt
cancel_button(v, presser) ==
  /\ views[v].open /\ now < views[v].timeout_at
  /\ views' = IF presser = views[v].user_id
              THEN [views EXCEPT ![v].open = FALSE, ![v].cancelled = TRUE]
              ELSE [views EXCEPT ![v].timeout_at = now + VIEW_TIMEOUT]
  /\ last' = [op |-> "cancel_button", user |-> presser,
              ok |-> presser = views[v].user_id, changed |-> FALSE,
              reply |-> IF presser = views[v].user_id
                        THEN "cancelled" ELSE "not_for_you"]
  /\ UNCHANGED <<now, botVars, rateVars, user_messages, acceptVars,
                 conversation_history, tasks, loop_wake, invocations>>

\* ------------------------------------------------------------------ clear
\* mutant: the user's key is deleted instead of its list being emptied
clear_history_deletes_key(user_id) ==
  /\ conversation_history' =
       [u \in DOMAIN conversation_history \ {user_id} |->
          conversation_history[u]]
  /\ last' = [op |-> "clear_history", user |-> user_id,
              ok |-> user_id \in DOMAIN conversation_history,
              changed |-> conversation_history' # conversation_history,
              reply |-> IF user_id \in DOMAIN conversation_history
                        THEN "cleared" ELSE "no_history"]
  /\ UNCHANGED <<now, botVars, rateVars, user_messages, acceptVars, tasks,
                 views, loop_wake, invocations>>

\* lines 537-549
clear_history(user_id) ==
  /\ conversation_history' =
       IF user_id \in DOMAIN conversation_history
       THEN [conversation_history EXCEPT ![user_id] = <<>>]
       ELSE conversation_history
  /\ last' = [op |-> "clear_history", user |-> user_id,
              ok |-> user_id \in DOMAIN conversation_history,
              changed |-> conversation_history' # conversation_history,
              reply |-> IF user_id \in DOMAIN conversation_history
                        THEN "cleared" ELSE "no_history"]
  /\ UNCHANGED <<now, botVars, rateVars, user_messages, acceptVars, tasks,
                 views, loop_wake, invocations>>

\* ------------------------------------------------- the admin's rate rules
admin_set_limit(caller, limit_type, name, per_min, per_10min, per_hour) ==
  /\ IF is_admin(caller) /\ limit_type = "global" /\ name \in CommandTypes
     THEN /\ rate_limits' = [rate_limits EXCEPT !.global[name] =
                               Rule(per_min, per_10min, per_hour, None)]
          /\ rate_limits_file' = rate_limits'
     ELSE UNCHANGED rateVars
  /\ last' = [op |-> "admin_set_limit", user |-> caller,
              ok |-> is_admin(caller) /\ limit_type = "global"
                     /\ name \in CommandTypes,
              changed |-> rate_limits' # rate_limits,
              reply |-> IF ~is_admin(caller) THEN "access_denied"
                        ELSE IF limit_type = "global"
                        THEN IF name \in CommandTypes THEN "set"
                             ELSE "invalid_command_type"
                        ELSE IF limit_type = "user" THEN "use_user_command"
                        ELSE "invalid_limit_type"]
  /\ UNCHANGED <<now, botVars, user_messages, acceptVars,
                 conversation_history, tasks, views, loop_wake, invocations>>

\* mutant: a duration of 0 gives an expiry of now
rule_expiry_zero_expires(duration_hours, t) ==
  IF duration_hours >= 0 THEN t + duration_hours * SECONDS_PER_HOUR ELSE None

\* lines 690-692: the expiry of a user rule
rule_expiry(duration_hours, t) ==
  IF duration_hours > 0 THEN t + duration_hours * SECONDS_PER_HOUR ELSE None

admin_set_user_limit(caller, target_user, command_type, per_min, per_10min, per_hour, duration_hours) ==
  /\ IF is_admin(caller) /\ command_type \in CommandTypes
     THEN /\ rate_limits' = [rate_limits EXCEPT
                 !.users[target_user][command_type] =
                    Rule(per_min, per_10min, per_hour,
                         rule_expiry(duration_hours, now))]
          /\ rate_limits_file' = rate_limits'
     ELSE UNCHANGED rateVars
  /\ last' = [op |-> "admin_set_user_limit", user |-> caller,
              ok |-> is_admin(caller) /\ command_type \in CommandTypes,
              changed |-> rate_limits' # rate_limits,
              reply |-> IF ~is_admin(caller) THEN "access_denied"
                        ELSE IF command_type \in CommandTypes THEN "set"
                        ELSE "invalid_command_type"]
  /\ UNCHANGED <<now, botVars, user_messages, acceptVars,
                 conversation_history, tasks, views, loop_wake, invocations>>

\* target_user "none" is the omitted argument
admin_remove_limit(caller, limit_type, name, target_user) ==
  /\ LET found ==
           /\ is_admin(caller)
           /\ name \in CommandTypes
           /\ \/ limit_type = "global" /\ rate_limits.global[name] # Absent
              \/ /\ limit_type = "user" /\ target_user # "none"
                 /\ rate_limits.users[target_user][name] # Absent
     IN /\ IF found
           THEN /\ rate_limits' =
                     IF limit_type = "global"
                     THEN [rate_limits EXCEPT !.global[name] = Absent]
                     ELSE [rate_limits EXCEPT !.users[target_user][name] = Absent]
                /\ rate_limits_file' = rate_limits'
           ELSE UNCHANGED rateVars
        /\ last' = [op |-> "admin_remove_limit", user |-> caller,
                    ok |-> found, changed |-> found,
                    reply |-> IF ~is_admin(caller) THEN "access_denied"
                              ELSE IF found THEN "removed"
                              ELSE IF limit_type = "user" /\ target_user = "none"
                              THEN "need_user"
                              ELSE IF limit_type \in {"global", "user"}
                              THEN "not_found"
                              ELSE "invalid_limit_type"]
  /\ UNCHANGED <<now, botVars, user_messages, acceptVars,
                 conversation_history, tasks, views, loop_wake, invocations>>

\* ------------------------------------------- specification: availability
ToggleMinutes == {0, 1, 2}
BotTicks == {30, 60}
BotCallers == {"admin", "alice"}
BotSlots == {1}

InitBot ==
  /\ now = StartTime
  /\ loop_wake = StartTime
  /\ load_persistent_data(DefaultRateLimits, DefaultBotState, NoAcceptances)

NextBot ==
  \/ \E h \in BotSlots, a \in BotCallers, m \in ToggleMinutes : admin_toggle_bot(h, a, m)
  \/ \E h \in BotSlots : admin_toggle_bot_save(h)
  \/ \E a \in BotCallers : admin_enable_bot(a)
  \/ check_bot_state_loop
  \/ \E u \in BotCallers : on_message(u)
  \/ \E d \in BotTicks : now + d <= StartTime + BotHorizon /\ Tick(d)

SpecBot == InitBot /\ [][NextBot]_vars

\* ------------------------------------------------ specification: history
\* text requests of one user, answered or failed, and clears
HistSlots == {1}
HistUsers == {"alice", "bob"}

\* the user turns of `h` that no assistant turn follows
Unanswered(h) ==
  Cardinality({i \in 1..Len(h) :
                 /\ h[i].role = "user"
                 /\ (i = Len(h) \/ h[i + 1].role = "user")})

InitHist ==
  /\ now = StartTime
  /\ loop_wake = StartTime
  /\ load_persistent_data(DefaultRateLimits, DefaultBotState, NoAcceptances)

NextHist ==
  \/ \E h \in HistSlots :
       /\ invocations < HistRequests
       /\ process_chat_command(h, "slash", "alice", "t", TRUE, "none")
  \/ \E h \in HistSlots : text_generation(h, TRUE)
  \/ \E h \in HistSlots :
       /\ Unanswered(History(conversation_history, tasks[h].user)) < HistFailures
       /\ text_generation(h, FALSE)
  \/ \E h \in HistSlots : handler_return(h)
  \/ \E u \in HistUsers : clear_history(u)

SpecHist == InitHist /\ [][NextHist]_vars

\* C2 (as claimed): every user's conversation history holds at most
\* MAX_HISTORY_LENGTH entries in every reachable state, the state right
\* after the assistant's reply is appended included.
C2_HistoryWithinCap ==
  \A u \in DOMAIN conversation_history :
     Len(conversation_history[u]) <= MAX_HISTORY_LENGTH

\* -------------------------------------- specification: per-minute window
\* rate_limits.json as found at start-up: the rules for alice and for the
\* type normal, with or without a 10-minute window
MinuteSlots == {1}
MinuteTicks == {30}
MinuteUserRules == {Absent, Rule(1, None, None, None), Rule(2, 3, None, None)}
MinuteGlobalRules == {Absent, Rule(2, None, None, None), Rule(1, 3, 3, None)}

InitMinute ==
  /\ now = StartTime
  /\ loop_wake = StartTime
  /\ \E ur \in MinuteUserRules, gr \in MinuteGlobalRules :
       load_persistent_data(
         [DefaultRateLimits EXCEPT !.users["alice"]["normal"] = ur,
                                   !.global["normal"] = gr],
         DefaultBotState, NoAcceptances)

NextMinute ==
  \/ \E h \in MinuteSlots :
       /\ invocations < MinuteRequests
       /\ process_chat_command(h, "slash", "alice", "t", TRUE, "none")
  \/ \E h \in MinuteSlots, ok \in BOOLEAN : text_generation(h, ok)
  \/ \E h \in MinuteSlots : handler_return(h)
  \/ \E d \in MinuteTicks : now + d <= StartTime + MinuteHorizon /\ Tick(d)

SpecMinute == InitMinute /\ [][NextMinute]_vars

\* the claims' own reading of the usage log and of the rule table
\* timestamps of (u, c) inside the trailing `window` seconds
InTrailing(u, c, window) ==
  Cardinality({i \in 1..Len(user_messages[u][c]) :
                 user_messages[u][c][i] > now - window})
\* the rules in force for (u, c): the user's own unless run out, the global
RulesInForce(u, c) ==
  {r \in {rate_limits.users[u][c], rate_limits.global[c]} :
     /\ r # Absent
     /\ ~(r.expires # None /\ r.expires <= now)}
LongerWindowsFree(r, u, c) ==
  /\ r.per_10min = None \/ InTrailing(u, c, TEN_MINUTE_WINDOW) < r.per_10min
  /\ r.per_hour = None \/ InTrailing(u, c, HOUR_WINDOW) < r.per_hour

\* C3: when a command of alice is checked, a rule in force with
\* per_minute = N >= 1 and N or more of her timestamps of that type inside
\* the trailing 60 seconds (ts counts iff now - ts < 60) makes check deny;
\* and when every rule in force has fewer than its N timestamps inside the
\* trailing 60 seconds and no longer window filled, check allows.
C3_PerMinuteWindow ==
  [][ \A h \in MinuteSlots :
        process_chat_command(h, "slash", "alice", "t", TRUE, "none") =>
          LET rules == RulesInForce("alice", "normal")
              inside == InTrailing("alice", "normal", MINUTE_WINDOW)
          IN /\ (\E r \in rules : /\ r.per_minute # None
                                  /\ r.per_minute >= 1
                                  /\ inside >= r.per_minute)
                  => ~tasks'[h].can_proceed
             /\ (/\ rules # {}
                 /\ \A r \in rules : /\ r.per_minute # None
                                     /\ r.per_minute >= 1
                                     /\ inside < r.per_minute
                                     /\ LongerWindowsFree(r, "alice", "normal"))
                  => /\ tasks'[h].can_proceed
                     /\ tasks'[h].recorded = 1 ]_vars

\* C3 witness: the third request is let through after the second was
\* denied: two timestamps are on record and the first has left the window
C3_Witness ==
  /\ tasks[1].n = 3 /\ tasks[1].can_proceed /\ tasks[1].recorded = 1
  /\ Len(user_messages["alice"]["normal"]) = 2
  /\ now - user_messages["alice"]["normal"][1] >= MINUTE_WINDOW
  /\ RulesInForce("alice", "normal") # {}

\* ----------------------------------------- specification: per-hour window
\* rate_limits.json holds one rule: global, type normal, per_hour = 60 and
\* no other window; alice sends normal requests, which the client answers
HOUR_CAP == 60
HourSlots == {1}
HourTicks == {1800}

InitHour ==
  /\ now = StartTime
  /\ loop_wake = StartTime
  /\ load_persistent_data(
       [DefaultRateLimits EXCEPT !.global["normal"] =
                                    Rule(None, None, HOUR_CAP, None)],
       DefaultBotState, NoAcceptances)

NextHour ==
  \/ \E h \in HourSlots :
       /\ invocations < HourRequests
       /\ process_chat_command(h, "slash", "alice", "t", TRUE, "none")
  \/ \E h \in HourSlots : text_generation(h, TRUE)
  \/ \E h \in HourSlots : handler_return(h)
  \/ \E d \in HourTicks : now + d <= StartTime + HourHorizon /\ Tick(d)

SpecHour == InitHour /\ [][NextHour]_vars

\* C4: under the rule global/normal per_hour = 60 alone, when alice's n-th
\* normal request is checked and her n-1 earlier ones are all on record
\* inside the trailing hour: for n <= 60 it is allowed and its timestamp is
\* appended; for n = 61 it is denied, the reason names the type normal and
\* has the word "hour", and the usage log is left as it was.
C4_SixtyFirstDenied ==
  [][ \A h \in HourSlots :
        process_chat_command(h, "slash", "alice", "t", TRUE, "none") =>
          LET prior == user_messages["alice"]["normal"]
              n == invocations + 1
          IN (/\ Len(prior) = n - 1
              /\ InTrailing("alice", "normal", HOUR_WINDOW) = n - 1)
             => /\ n <= HOUR_CAP =>
                     /\ tasks'[h].can_proceed
                     /\ user_messages'["alice"]["normal"] = Append(prior, now)
                /\ n = HOUR_CAP + 1 =>
                     /\ ~tasks'[h].can_proceed
                     /\ tasks'[h].reason.command_type = "normal"
                     /\ \E i \in DOMAIN tasks'[h].reason.window :
                          tasks'[h].reason.window[i] = "hour"
                     /\ tasks'[h].recorded = 0
                     /\ user_messages' = user_messages ]_vars

\* C4 witness: the 61st request has been denied with 60 on record
C4_Witness ==
  /\ tasks[1].n = HOUR_CAP + 1 /\ tasks[1].pc = "done"
  /\ tasks[1].sent = <<"send_denied">>
  /\ tasks[1].reason.window = <<"per", "hour">>
  /\ Len(user_messages["alice"]["normal"]) = HOUR_CAP

\* ------------------------------------- specification: permanent user limit
\* the admin limits alice's type plus to one a minute, for good; alice sends
\* plus and normal requests; rate_limits.json may hold a global normal rule
LimitSlots == {1}
LimitCallers == {"admin", "alice"}
LimitCommands == {"t", "t_plus"}
LimitGlobalRules == {Absent, Rule(1, 5, 5, None)}
LongTick == SECONDS_PER_DAY

InitLimit ==
  /\ now = StartTime
  /\ loop_wake = StartTime
  /\ \E gr \in LimitGlobalRules :
       load_persistent_data(
         [DefaultRateLimits EXCEPT !.global["normal"] = gr],
         DefaultBotState, NoAcceptances)

NextLimit ==
  \/ \E a \in LimitCallers :
       admin_set_user_limit(a, "alice", "plus", 1, 5, 5, 0)
  \/ \E h \in LimitSlots, cmd \in LimitCommands :
       /\ invocations < LimitRequests
       /\ process_chat_command(h, "slash", "alice", cmd, TRUE, "none")
  \/ \E h \in LimitSlots : text_generation(h, TRUE)
  \/ \E h \in LimitSlots : handler_return(h)
  \/ now + 30 <= StartTime + LimitHorizon /\ Tick(30)
  \/ now < StartTime + LongTick /\ Tick(LongTick)

SpecLimit == InitLimit /\ [][NextLimit]_vars

\* the only rule ever set here is the admin's, with duration_hours = 0
PlusRuleSet ==
  /\ rate_limits.users["alice"]["plus"] # Absent
  /\ rate_limits.users["alice"]["plus"].per_minute = 1

\* no window of a rule in force for (u, c) is filled
NothingFilled(u, c) ==
  \A r \in RulesInForce(u, c) :
     /\ r.per_minute = None \/ InTrailing(u, c, MINUTE_WINDOW) < r.per_minute
     /\ LongerWindowsFree(r, u, c)

\* C5: with the permanent rule per_minute = 1 on (alice, plus) in place, a
\* plus request of alice with none of her plus timestamps in the trailing
\* minute is allowed and recorded, one with a plus timestamp in the
\* trailing minute is denied under the user rule and not recorded, a normal
\* request is allowed exactly when the global normal rule alone allows it,
\* and no step, however late, takes the rule out of the table or its file.
C5_PermanentUserLimit ==
  [][ PlusRuleSet =>
        /\ \A h \in LimitSlots :
             process_chat_command(h, "slash", "alice", "t_plus", TRUE, "none") =>
               IF InTrailing("alice", "plus", MINUTE_WINDOW) = 0
               THEN /\ tasks'[h].can_proceed
                    /\ tasks'[h].recorded = 1
                    /\ Len(user_messages'["alice"]["plus"]) =
                         InTrailing("alice", "plus", HOUR_WINDOW) + 1
                    /\ user_messages'["alice"]["plus"][
                         Len(user_messages'["alice"]["plus"])] = now
               ELSE /\ ~tasks'[h].can_proceed
                    /\ tasks'[h].reason.scope = "user"
                    /\ tasks'[h].reason.window = <<"per", "minute">>
                    /\ tasks'[h].recorded = 0
                    /\ Len(user_messages'["alice"]["plus"]) =
                         InTrailing("alice", "plus", HOUR_WINDOW)
        /\ \A h \in LimitSlots :
             process_chat_command(h, "slash", "alice", "t", TRUE, "none") =>
               /\ tasks'[h].can_proceed = NothingFilled("alice", "normal")
               /\ tasks'[h].reason.scope # "user"
        /\ rate_limits'.users["alice"]["plus"] = rate_limits.users["alice"]["plus"]
        /\ rate_limits_file'.users["alice"]["plus"] =
             rate_limits_file.users["alice"]["plus"] ]_vars

\* C5 witness: a day after the rule was set, alice's second plus request of
\* the minute is denied under it while a normal request of hers of the same
\* minute is on record
C5_Witness ==
  /\ PlusRuleSet
  /\ now >= StartTime + LongTick
  /\ tasks[1].cmd = "t_plus" /\ ~tasks[1].can_proceed
  /\ tasks[1].reason.scope = "user"
  /\ \E i \in DOMAIN user_messages["alice"]["plus"] :
       user_messages["alice"]["plus"][i] = now
  /\ \E i \in DOMAIN user_messages["alice"]["normal"] :
       user_messages["alice"]["normal"][i] = now

\* ------------------------------------------ specification: expiring rules
\* rate_limits.json holds a permanent rule for (bob, normal), a rule for
\* (alice, plus) that runs out after half an hour, and may hold a global
\* normal rule; the admin gives alice's type normal a rule for an hour or
\* for good; alice sends normal and plus requests
ExpirySlots == {1}
ExpiryCallers == {"admin", "alice"}
ExpiryCommands == {"t", "t_plus"}
ExpiryTicks == {1800}
ExpiryDurations == {0, 1}
ExpiryGlobalRules == {Absent, Rule(1, 5, 5, None)}

InitExpiry ==
  /\ now = StartTime
  /\ loop_wake = StartTime
  /\ \E gr \in ExpiryGlobalRules :
       load_persistent_data(
         [DefaultRateLimits EXCEPT
            !.global["normal"] = gr,
            !.users["bob"]["normal"] = Rule(1, 5, 5, None),
            !.users["alice"]["plus"] = Rule(1, 5, 5, StartTime + 1800)],
         DefaultBotState, NoAcceptances)

NextExpiry ==
  \/ \E a \in ExpiryCallers, dur \in ExpiryDurations :
       admin_set_user_limit(a, "alice", "normal", 1, 5, 5, dur)
  \/ \E h \in ExpirySlots, cmd \in ExpiryCommands :
       /\ invocations < ExpiryRequests
       /\ process_chat_command(h, "slash", "alice", cmd, TRUE, "none")
  \/ \E h \in ExpirySlots : text_generation(h, TRUE)
  \/ \E h \in ExpirySlots : handler_return(h)
  \/ \E d \in ExpiryTicks : now + d <= StartTime + ExpiryHorizon /\ Tick(d)

SpecExpiry == InitExpiry /\ [][NextExpiry]_vars

\* the user's rule for (u, c) has an expiry time at or before now
RunOut(u, c) ==
  /\ rate_limits.users[u][c] # Absent
  /\ rate_limits.users[u][c].expires # None
  /\ rate_limits.users[u][c].expires <= now

\* C6: when a command of alice is checked while her rule for its type has
\* an expiry time at or before now, the check answers as the global rule
\* alone would, the table it leaves is the old one with just that rule
\* gone (every other user's and type's rule as before), and
\* rate_limits.json holds that same table.
C6_ExpiredRuleAbsent ==
  [][ \A h \in ExpirySlots, cmd \in ExpiryCommands :
        LET c == COMMAND_MAP[cmd].command_type
        IN (/\ process_chat_command(h, "slash", "alice", cmd, TRUE, "none")
            /\ RunOut("alice", c))
           => /\ tasks'[h].can_proceed = NothingFilled("alice", c)
              /\ tasks'[h].reason.scope # "user"
              /\ rate_limits' =
                   [rate_limits EXCEPT !.users["alice"][c] = Absent]
              /\ rate_limits_file' = rate_limits' ]_vars

\* C6 witness: the admin's one-hour rule for (alice, normal) is gone from
\* the table and the file after alice's normal request was checked, while
\* bob's rule and alice's run-out plus rule are still there
C6_Witness ==
  /\ last.op = "admin_set_user_limit" /\ last.ok
  /\ tasks[1].cmd = "t" /\ tasks[1].pc \in {"thinking", "send_denied"}
  /\ rate_limits.users["alice"]["normal"] = Absent
  /\ rate_limits_file.users["alice"]["normal"] = Absent
  /\ rate_limits.users["bob"]["normal"] # Absent
  /\ rate_limits.users["alice"]["plus"] # Absent

\* ------------------------------------ specification: commands while disabled
\* the admin disables and enables the bot; alice (no admin) and the admin
\* send the command t, by `$` message and by slash interaction
GateChatSlots == {1}
GateAdminSlots == {2}
GateCallers == {"admin"}
GateUsers == {"alice", "admin"}
GatePaths == {"prefix", "slash"}
GateMinutes == {0, 1}
GateTicks == {60}

InitGate ==
  /\ now = StartTime
  /\ loop_wake = StartTime
  /\ load_persistent_data(DefaultRateLimits, DefaultBotState, NoAcceptances)

NextGate ==
  \/ \E h \in GateAdminSlots, a \in GateCallers, m \in GateMinutes :
       admin_toggle_bot(h, a, m)
  \/ \E h \in GateAdminSlots : admin_toggle_bot_save(h)
  \/ \E a \in GateCallers : admin_enable_bot(a)
  \/ \E h \in GateChatSlots, path \in GatePaths, u \in GateUsers :
       /\ invocations < GateRequests
       /\ process_chat_command(h, path, u, "t", TRUE, "none")
  \/ \E h \in GateChatSlots, ok \in BOOLEAN : text_generation(h, ok)
  \/ \E h \in GateChatSlots : handler_return(h)
  \/ check_bot_state_loop
  \/ \E d \in GateTicks : now + d <= StartTime + GateHorizon /\ Tick(d)

SpecGate == InitGate /\ [][NextGate]_vars

\* the bot is disabled and no deadline has run out
BotBlocked ==
  /\ ~bot_state.enabled
  /\ ~(Truthy(bot_state.disable_until) /\ now >= bot_state.disable_until)

\* C1 (as claimed): a chat command that a user who is no admin invokes
\* while the bot is disabled, by `$` message or by slash interaction, is
\* dropped: its handling ends at once, with no timestamp recorded, no
\* history entry, nothing dispatched and nothing sent.
C1_DisabledDropsCommands ==
  [][ \A h \in GateChatSlots, path \in GatePaths, u \in GateUsers :
        (/\ BotBlocked
         /\ ~is_admin(u)
         /\ process_chat_command(h, path, u, "t", TRUE, "none"))
        => /\ user_messages' = user_messages
           /\ conversation_history' = conversation_history
           /\ tasks'[h].pc = "done"
           /\ tasks'[h].dispatched = 0
           /\ tasks'[h].sent = <<>> ]_vars

\* ------------------------------------------- specification: acceptance
\* alice and bob send the non-tutor command tn and press the buttons of
\* the prompts; the clock moves in steps of 15 days, and of 15 days and a
\* second
AcceptSlots == {1}
AcceptUsers == {"alice", "bob"}
AcceptViews == {1}
HalfTerm == 15 * SECONDS_PER_DAY
AcceptTicks == {HalfTerm, HalfTerm + 1}
AcceptHorizon == 3 * HalfTerm + 3

InitAccept ==
  /\ now = StartTime
  /\ loop_wake = StartTime
  /\ load_persistent_data(DefaultRateLimits, DefaultBotState, NoAcceptances)

NextAccept ==
  \/ \E h \in AcceptSlots, u \in AcceptUsers :
       /\ invocations < AcceptRequests
       /\ process_chat_command(h, "slash", u, "tn", TRUE, "none")
  \/ \E h \in AcceptSlots, v \in AcceptViews, p \in AcceptUsers :
       accept_button(h, v, p)
  \/ \E h \in AcceptSlots : accept_resume(h)
  \/ \E v \in AcceptViews, p \in AcceptUsers : cancel_button(v, p)
  \/ \E h \in AcceptSlots, ok \in BOOLEAN : text_generation(h, ok)
  \/ \E h \in AcceptSlots : handler_return(h)
  \/ \E d \in AcceptTicks : now + d <= StartTime + AcceptHorizon /\ Tick(d)

SpecAccept == InitAccept /\ [][NextAccept]_vars

\* u has no acceptance on record, or one more than 30 days old
AcceptanceLapsed(u) ==
  \/ user_acceptances[u] = None
  \/ now - user_acceptances[u] > ACCEPTANCE_DAYS * SECONDS_PER_DAY

\* C9: a non-tutor command of u, fresh or resumed by a prompt, is stopped
\* for acceptance exactly when u has no acceptance record or
\* now - last_acceptance exceeds 30 days; the requester's press of Accept
\* stores now as the requester's acceptance time, so that it has not
\* lapsed, and leaves every other user's record as it was.
C9_AcceptanceWindow ==
  [][ /\ \A h \in AcceptSlots, u \in AcceptUsers :
           process_chat_command(h, "slash", u, "tn", TRUE, "none") =>
             ((tasks'[h].pc = "send_prompt") <=> AcceptanceLapsed(u))
      /\ \A h \in AcceptSlots :
           accept_resume(h) =>
             ((tasks'[h].pc = "send_prompt") <=> AcceptanceLapsed(tasks[h].user))
      /\ \A h \in AcceptSlots, v \in AcceptViews, p \in AcceptUsers :
           (accept_button(h, v, p) /\ p = views[v].user_id) =>
             /\ user_acceptances'[p] = now
             /\ ~AcceptanceLapsed(p)'
             /\ \A w \in Users \ {p} :
                  /\ user_acceptances'[w] = user_acceptances[w]
                  /\ AcceptanceLapsed(w)' = AcceptanceLapsed(w) ]_vars

\* C9 witness: alice, who accepted more than 30 days ago, is asked again,
\* and bob has no record
C9_Witness ==
  /\ tasks[1].user = "alice" /\ tasks[1].pc = "send_prompt"
  /\ user_acceptances["alice"] # None
  /\ now - user_acceptances["alice"] > ACCEPTANCE_DAYS * SECONDS_PER_DAY
  /\ user_acceptances["bob"] = None

\* ------------------------------------------------ claims on availability
Enabled == [enabled |-> TRUE, disable_until |-> None]
DisabledIndefinitely == [enabled |-> FALSE, disable_until |-> None]
IsEnabledCall == check_bot_state_loop \/ \E u \in BotCallers : on_message(u)
DeadlinePassed ==
  /\ ~bot_state.enabled
  /\ Truthy(bot_state.disable_until)
  /\ now >= bot_state.disable_until

\* C7: once the bot is disabled indefinitely (enabled false, disable_until
\* None), every isEnabled call, from a message or from the background timer,
\* returns false and leaves BotState and its file as they are, whatever the
\* clock reads; only an admin command (enable, or another disable) takes the
\* bot out of that state.
C7_IndefiniteDisableStays ==
  [][ bot_state = DisabledIndefinitely =>
        /\ IsEnabledCall =>
             /\ bot_state' = bot_state
             /\ bot_state_file' = bot_state_file
             /\ ~last'.ok
        /\ \/ bot_state' = bot_state
           \/ \E a \in BotCallers : admin_enable_bot(a)
           \/ \E h \in BotSlots, a \in BotCallers, m \in ToggleMinutes :
                admin_toggle_bot(h, a, m) ]_vars

\* C7 witness: disable(0) has completed, two minutes have passed, and the
\* background timer's check has since returned false
C7_Witness ==
  /\ tasks[1].pc = "done" /\ tasks[1].sent = <<"disabled">>
  /\ tasks[1].minutes = 0
  /\ bot_state = DisabledIndefinitely
  /\ last.op = "check_bot_state_loop" /\ ~last.ok
  /\ now >= StartTime + 2 * SECONDS_PER_MINUTE

\* C8: an isEnabled call made at or after the deadline of a timed disable
\* returns true, leaves enabled = true and disable_until = None in memory
\* and in bot_state.json; an isEnabled call on an enabled bot returns true
\* and changes neither.
C8_ReenableAtDeadline ==
  [][ IsEnabledCall =>
        /\ DeadlinePassed =>
             /\ bot_state' = Enabled
             /\ bot_state_file' = Enabled
             /\ last'.ok
        /\ bot_state.enabled =>
             /\ bot_state' = bot_state
             /\ bot_state_file' = bot_state_file
             /\ last'.ok ]_vars

\* C8 witness: a disable with a deadline has completed and the timer's
\* check has just re-enabled the bot
C8_Witness ==
  /\ tasks[1].pc = "done" /\ tasks[1].sent = <<"disabled">>
  /\ tasks[1].minutes > 0
  /\ last.op = "check_bot_state_loop" /\ last.ok /\ last.changed
  /\ bot_state = Enabled /\ bot_state_file = Enabled

\* C10: an enabled bot never carries a reactivation deadline.
C10_EnabledHasNoDeadline ==
  bot_state.enabled => bot_state.disable_until = None

\* C10 witness: the bot is enabled again after a timed disable ran out
C10_Witness ==
  /\ bot_state.enabled
  /\ last.op \in {"check_bot_state_loop", "on_message"} /\ last.changed
  /\ now > StartTime

\* ------------------------------------- specification: the admin commands
\* an admin by id, an admin by role and an outsider invoke the five admin commands, with
\* valid and invalid arguments; the background timer runs
AdminSlots == {1}
AdminCallers == {"admin", "mod", "alice"}
AdminLimitTypes == {"global", "user"}
AdminNames == {"normal", "bogus"}
AdminUserTypes == {"plus", "bogus"}
AdminRemoveTypes == {"global", "user"}
AdminRemoveNames == {"normal", "plus"}
AdminTargets == {"none", "alice"}
AdminDurations == {0, 1}
AdminMinutes == {0, 1}
AdminTicks == {60}

InitAdmin ==
  /\ now = StartTime
  /\ loop_wake = StartTime
  /\ load_persistent_data(DefaultRateLimits, DefaultBotState, NoAcceptances)

NextAdmin ==
  \/ \E a \in AdminCallers, lt \in AdminLimitTypes, name \in AdminNames :
       admin_set_limit(a, lt, name, 1, 5, 5)
  \/ \E a \in AdminCallers, c \in AdminUserTypes, dur \in AdminDurations :
       admin_set_user_limit(a, "alice", c, 1, 5, 5, dur)
  \/ \E a \in AdminCallers, lt \in AdminRemoveTypes, name \in AdminRemoveNames,
        target \in AdminTargets :
       admin_remove_limit(a, lt, name, target)
  \/ \E h \in AdminSlots, a \in AdminCallers, m \in AdminMinutes :
       admin_toggle_bot(h, a, m)
  \/ \E h \in AdminSlots : admin_toggle_bot_save(h)
  \/ \E a \in AdminCallers : admin_enable_bot(a)
  \/ check_bot_state_loop
  \/ \E d \in AdminTicks : now + d <= StartTime + AdminHorizon /\ Tick(d)

SpecAdmin == InitAdmin /\ [][NextAdmin]_vars

\* the identities that are neither on the admin id list nor hold the role
Outsiders == {u \in AdminCallers : u \notin ADMIN_IDS /\ u \notin AdminRoleMembers}

\* one of the five admin commands is invoked by `a`
AdminCommandBy(a) ==
  \/ \E lt \in AdminLimitTypes, name \in AdminNames :
       admin_set_limit(a, lt, name, 1, 5, 5)
  \/ \E c \in AdminUserTypes, dur \in AdminDurations :
       admin_set_user_limit(a, "alice", c, 1, 5, 5, dur)
  \/ \E lt \in AdminRemoveTypes, name \in AdminRemoveNames,
        target \in AdminTargets :
       admin_remove_limit(a, lt, name, target)
  \/ \E h \in AdminSlots, m \in AdminMinutes : admin_toggle_bot(h, a, m)
  \/ admin_enable_bot(a)

\* C11: an admin command (set global limit, set user limit, remove limit,
\* disable, enable) invoked by an identity that is neither on the admin id
\* list nor holds the admin role leaves the rule table, the bot state and
\* both their files as they are, and answers "access denied".
C11_OutsidersChangeNothing ==
  [][ \A a \in Outsiders :
        AdminCommandBy(a) =>
          /\ rate_limits' = rate_limits
          /\ rate_limits_file' = rate_limits_file
          /\ bot_state' = bot_state
          /\ bot_state_file' = bot_state_file
          /\ last'.user = a
          /\ last'.reply = "access_denied" ]_vars

\* C11 witness: with a global rule and a user rule in place and the bot
\* disabled by an admin, an outsider's attempt to remove a rule has been
\* turned away
C11_Witness ==
  /\ last.op = "admin_remove_limit" /\ last.user \in Outsiders
  /\ last.reply = "access_denied"
  /\ rate_limits.global["normal"] # Absent
  /\ rate_limits.users["alice"]["plus"] # Absent
  /\ rate_limits_file = rate_limits
  /\ ~bot_state.enabled /\ bot_state_file = bot_state

\* ------------------------------------------- specification: the check
\* rate_limits.json as found at start-up holds a rule for (alice, normal),
\* a global rule for normal, both or neither: rules whose first filled
\* window is the minute, the 10 minutes or the hour, a user rule wider than
\* every global one, and a user rule that runs out after a minute
CheckSlots == {1}
CheckTicks == {30}
CheckUserRules ==
  {Absent, Rule(2, 3, None, None), Rule(3, 3, 2, None), Rule(5, 5, 5, None),
   Rule(1, None, None, StartTime + 60)}
CheckGlobalRules ==
  {Absent, Rule(1, 3, 3, None), Rule(None, None, 2, None)}

InitCheck ==
  /\ now = StartTime
  /\ loop_wake = StartTime
  /\ \E ur \in CheckUserRules, gr \in CheckGlobalRules :
       load_persistent_data(
         [DefaultRateLimits EXCEPT !.users["alice"]["normal"] = ur,
                                   !.global["normal"] = gr],
         DefaultBotState, NoAcceptances)

NextCheck ==
  \/ \E h \in CheckSlots :
       /\ invocations < CheckRequests
       /\ process_chat_command(h, "slash", "alice", "t", TRUE, "none")
  \/ \E h \in CheckSlots, ok \in BOOLEAN : text_generation(h, ok)
  \/ \E h \in CheckSlots : handler_return(h)
  \/ \E d \in CheckTicks : now + d <= StartTime + CheckHorizon /\ Tick(d)

SpecCheck == InitCheck /\ [][NextCheck]_vars

\* the first window of rule r, in the order minute, 10 minutes, hour, that
\* the timestamps of (u, c) fill; <<>> when none is, or r is no rule
FirstFilled(r, u, c) ==
  IF r = Absent THEN <<>>
  ELSE IF r.per_minute # None /\ InTrailing(u, c, MINUTE_WINDOW) >= r.per_minute
  THEN <<"per", "minute">>
  ELSE IF r.per_10min # None /\ InTrailing(u, c, TEN_MINUTE_WINDOW) >= r.per_10min
  THEN <<"per", "10", "minutes">>
  ELSE IF r.per_hour # None /\ InTrailing(u, c, HOUR_WINDOW) >= r.per_hour
  THEN <<"per", "hour">>
  ELSE <<>>

\* the user's rule for (u, c) unless it has run out
UnexpiredUserRule(u, c) == IF RunOut(u, c) THEN Absent ELSE rate_limits.users[u][c]

\* C12: check(alice, normal) allows iff neither alice's unexpired rule for
\* normal nor the global rule for normal has a filled window; a denial
\* names the user rule when that rule has a filled window and the global
\* rule otherwise, and the first filled window of the rule it names, in the
\* order per minute, per 10 minutes, per hour.
C12_CheckVerdict ==
  [][ \A h \in CheckSlots :
        process_chat_command(h, "slash", "alice", "t", TRUE, "none") =>
          LET uf == FirstFilled(UnexpiredUserRule("alice", "normal"),
                                "alice", "normal")
              gf == FirstFilled(rate_limits.global["normal"], "alice", "normal")
          IN /\ tasks'[h].can_proceed <=> (uf = <<>> /\ gf = <<>>)
             /\ uf # <<>> =>
                  tasks'[h].reason = [scope |-> "user", window |-> uf,
                                      command_type |-> "normal"]
             /\ (uf = <<>> /\ gf # <<>>) =>
                  tasks'[h].reason = [scope |-> "global", window |-> gf,
                                      command_type |-> "normal"] ]_vars

\* C12 witness: alice's own rule allows five a minute and is not filled,
\* and her request is denied under the global rule
C12_Witness ==
  /\ rate_limits.users["alice"]["normal"] = Rule(5, 5, 5, None)
  /\ rate_limits.global["normal"] # Absent
  /\ tasks[1].pc = "send_denied"
  /\ tasks[1].reason.scope = "global"
  /\ Len(user_messages["alice"]["normal"]) < 5

\* --------------------------------------- specification: policy rejections
\* rate_limits.json allows one normal request a minute; alice, who has
\* accepted nothing, sends t and tn by `$` message and by slash interaction;
\* the admin disables the bot for a minute
RejectChatSlots == {1}
RejectAdminSlots == {2}
RejectPaths == {"prefix", "slash"}
RejectCommands == {"t", "tn"}
RejectMinutes == {1}
RejectTicks == {60}

InitReject ==
  /\ now = StartTime
  /\ loop_wake = StartTime
  /\ load_persistent_data(
       [DefaultRateLimits EXCEPT !.global["normal"] = Rule(1, None, None, None)],
       DefaultBotState, NoAcceptances)

NextReject ==
  \/ \E h \in RejectChatSlots, path \in RejectPaths, cmd \in RejectCommands :
       /\ invocations < RejectRequests
       /\ process_chat_command(h, path, "alice", cmd, TRUE, "none")
  \/ \E h \in RejectChatSlots, ok \in BOOLEAN : text_generation(h, ok)
  \/ \E h \in RejectChatSlots : handler_return(h)
  \/ \E h \in RejectAdminSlots, m \in RejectMinutes : admin_toggle_bot(h, "admin", m)
  \/ \E h \in RejectAdminSlots : admin_toggle_bot_save(h)
  \/ check_bot_state_loop
  \/ \E d \in RejectTicks : now + d <= StartTime + RejectHorizon /\ Tick(d)

SpecReject == InitReject /\ [][NextReject]_vars

RejectPcs == {"send_denied", "send_prompt"}

\* every timestamp of the usage log after the step was in it before
NoTimestampAdded ==
  \A u \in Users, c \in CommandTypes :
     /\ Len(user_messages'[u][c]) <= Len(user_messages[u][c])
     /\ \A i \in DOMAIN user_messages'[u][c] :
          \E j \in DOMAIN user_messages[u][c] :
             user_messages'[u][c][i] = user_messages[u][c][j]

\* handler h turns its command down in this step
RejectedBy(h) ==
  /\ \E path \in RejectPaths, cmd \in RejectCommands :
       process_chat_command(h, path, "alice", cmd, TRUE, "none")
  /\ tasks'[h].pc \in RejectPcs

\* handler h tells the user of the rejection in this step, and returns
ReportedBy(h) == handler_return(h) /\ tasks[h].pc \in RejectPcs

\* what the claim says of the usage log, the histories, the acceptances and
\* the clients, for the step that rejects and for the step that reports
RejectionLeavesData(h) ==
  /\ RejectedBy(h) =>
       /\ NoTimestampAdded
       /\ conversation_history' = conversation_history
       /\ user_acceptances' = user_acceptances
       /\ user_acceptances_file' = user_acceptances_file
       /\ tasks'[h].recorded = 0 /\ tasks'[h].dispatched = 0
  /\ ReportedBy(h) =>
       /\ user_messages' = user_messages
       /\ conversation_history' = conversation_history
       /\ user_acceptances' = user_acceptances
       /\ user_acceptances_file' = user_acceptances_file
       /\ tasks'[h].pc = "done" /\ tasks'[h].dispatched = 0
       /\ tasks'[h].sent = <<tasks[h].pc>>
       /\ last'.reply = tasks[h].pc

\* C13 (as claimed): a chat request that check denies, or that is stopped
\* for acceptance, is reported to the user and adds no timestamp, changes
\* no history, no acceptance and not the bot state, and reaches no client.
C13_RejectionHasNoEffect ==
  [][ \A h \in RejectChatSlots :
        /\ RejectionLeavesData(h)
        /\ (RejectedBy(h) \/ ReportedBy(h)) =>
             /\ bot_state' = bot_state
             /\ bot_state_file' = bot_state_file ]_vars

\* C13 (amended): as claimed, but the bot state is left alone only up to
\* the isEnabled call that on_message makes after every `$` message: when
\* the rejected request came by `$` message and the bot is disabled with
\* its deadline passed, that call re-enables the bot and saves it.
C13_RejectionEffectAmended ==
  [][ \A h \in RejectChatSlots :
        /\ RejectionLeavesData(h)
        /\ RejectedBy(h) =>
             /\ bot_state' = bot_state
             /\ bot_state_file' = bot_state_file
        /\ ReportedBy(h) =>
             IF tasks[h].path = "prefix" /\ DeadlinePassed
             THEN bot_state' = Enabled /\ bot_state_file' = Enabled
             ELSE /\ bot_state' = bot_state
                  /\ bot_state_file' = bot_state_file ]_vars

\* C13 witness: a request sent by `$` message was denied by the rate
\* limiter and reported while the bot's one-minute disable had run out;
\* one timestamp is on record and the bot is enabled again
C13_Witness ==
  /\ tasks[1].pc = "done" /\ tasks[1].sent = <<"send_denied">>
  /\ tasks[1].path = "prefix" /\ tasks[1].dispatched = 0
  /\ last.op = "process_chat_command" /\ last.reply = "send_denied"
  /\ tasks[2].sent = <<"disabled">>
  /\ bot_state = Enabled
  /\ Len(user_messages["alice"]["normal"]) = 1

\* ------------------------------------------ specification: the pipeline
\* alice sends the tutor command t, the non-tutor command tn and the image
\* command t_image, with a query or with a file alone; she and bob press
\* the buttons of her prompts; a global rule allows one request a minute
\* of each of the three types
PipeSlots == {1}
PipeViews == {1}
\* (command, query given, attachment)
PipeInputs ==
  {<<"t", TRUE, "none">>, <<"t", FALSE, "file">>, <<"tn", TRUE, "none">>,
   <<"t_image", TRUE, "none">>}
PipePressers == {"alice", "bob"}
PipeTicks == {30}
PipeRule == Rule(1, None, None, None)

InitPipe ==
  /\ now = StartTime
  /\ loop_wake = StartTime
  /\ load_persistent_data(
       [DefaultRateLimits EXCEPT !.global["normal"] = PipeRule,
                                 !.global["nonnormal"] = PipeRule,
                                 !.global["image"] = PipeRule],
       DefaultBotState, NoAcceptances)

NextPipe ==
  \/ \E h \in PipeSlots, inp \in PipeInputs :
       /\ invocations < PipeRequests
       /\ process_chat_command(h, "slash", "alice", inp[1], inp[2], inp[3])
  \/ \E h \in PipeSlots : process_attachments(h)
  \/ \E h \in PipeSlots, ok \in BOOLEAN : text_generation(h, ok)
  \/ \E h \in PipeSlots, ok \in BOOLEAN : image_generation(h, ok)
  \/ \E h \in PipeSlots : handler_return(h)
  \/ \E h \in PipeSlots, v \in PipeViews, p \in PipePressers : accept_button(h, v, p)
  \/ \E h \in PipeSlots : accept_resume(h)
  \/ \E v \in PipeViews, p \in PipePressers : cancel_button(v, p)
  \/ \E d \in PipeTicks : now + d <= StartTime + PipeHorizon /\ Tick(d)

SpecPipe == InitPipe /\ [][NextPipe]_vars

\* a handling of a chat command by handler h begins in this step: a command
\* arrives, or the prompt's callback calls process_chat_command again
HandlingBegins(h) ==
  \/ \E inp \in PipeInputs :
       process_chat_command(h, "slash", "alice", inp[1], inp[2], inp[3])
  \/ accept_resume(h)

\* the timestamps this step adds to the log of (u, c): what the log holds
\* afterwards beyond what it held that is under an hour old
Added(u, c) ==
  IF user_messages'[u][c] = user_messages[u][c] THEN 0
  ELSE Len(user_messages'[u][c]) - InTrailing(u, c, HOUR_WINDOW)

AddedAnywhere == {uc \in Users \X CommandTypes : Added(uc[1], uc[2]) # 0}

\* C14: a step adds a timestamp only as the record of a handling that
\* begins in it, for that handling's user and type, after its check has
\* allowed it, and then exactly one; no later step of the handling adds
\* another; and a handler calls the LLM or image client only with its
\* record made.
C14_RecordAfterCheckBeforeDispatch ==
  [][ /\ \A uc \in AddedAnywhere :
           /\ Added(uc[1], uc[2]) = 1
           /\ AddedAnywhere = {uc}
           /\ user_messages'[uc[1]][uc[2]][Len(user_messages'[uc[1]][uc[2]])] = now
           /\ \E h \in PipeSlots :
                /\ HandlingBegins(h)
                /\ tasks'[h].can_proceed
                /\ tasks'[h].recorded = 1
                /\ tasks'[h].user = uc[1]
                /\ COMMAND_MAP[tasks'[h].cmd].command_type = uc[2]
      /\ \A h \in PipeSlots :
           /\ (HandlingBegins(h) /\ tasks'[h].recorded = 1) =>
                AddedAnywhere # {}
           /\ ~HandlingBegins(h) => tasks'[h].recorded <= tasks[h].recorded
           /\ (tasks[h].dispatched = 0 /\ tasks'[h].dispatched = 1) =>
                /\ tasks[h].recorded = 1
                /\ tasks[h].can_proceed ]_vars

\* C14 witness: the handling resumed by alice's prompt has called the
\* client with its one record made, after the handling that was stopped
\* for acceptance recorded nothing
C14_Witness ==
  /\ tasks[1].path = "view" /\ tasks[1].n = 1
  /\ tasks[1].dispatched = 1 /\ tasks[1].recorded = 1
  /\ user_messages["alice"]["nonnormal"] = <<now>>
  /\ now > StartTime

\* ------------------------------------------- specification: bursts
\* a fixed rule of N = 1 or N = 2 requests a minute, alice's own or the
\* global one, for the types normal and nonnormal; alice sends t and tn
\* while her earlier commands are still being handled, and accepts her
\* prompts; every handler may be suspended at its sends and the others run
BurstSlots == {1, 2}
\* the prompt alice answers, and the handler that takes her press
BurstViews == {1}
BurstAcceptSlots == {1}
BurstCommands == {"t", "tn"}
BurstLimits == {1, 2}
BurstScopes == {"user", "global"}
BurstTicks == {30}

BurstTable(scope, n) ==
  IF scope = "user"
  THEN [DefaultRateLimits EXCEPT
          !.users["alice"]["normal"] = Rule(n, None, None, None),
          !.users["alice"]["nonnormal"] = Rule(n, None, None, None)]
  ELSE [DefaultRateLimits EXCEPT
          !.global["normal"] = Rule(n, None, None, None),
          !.global["nonnormal"] = Rule(n, None, None, None)]

InitBurst ==
  /\ now = StartTime
  /\ loop_wake = StartTime
  /\ \E scope \in BurstScopes, n \in BurstLimits :
       load_persistent_data(BurstTable(scope, n), DefaultBotState, NoAcceptances)

NextBurst ==
  \/ \E h \in BurstSlots, cmd \in BurstCommands :
       /\ invocations < BurstRequests
       /\ process_chat_command(h, "slash", "alice", cmd, TRUE, "none")
  \/ \E h \in BurstSlots : text_generation(h, TRUE)
  \/ \E h \in BurstSlots : handler_return(h)
  \/ \E h \in BurstAcceptSlots, v \in BurstViews : accept_button(h, v, "alice")
  \/ \E h \in BurstSlots : accept_resume(h)
  \/ \E d \in BurstTicks : now + d <= StartTime + BurstHorizon /\ Tick(d)

SpecBurst == InitBurst /\ [][NextBurst]_vars

\* the N of the one rule in force for (alice, c)
BurstLimit(c) ==
  IF rate_limits.users["alice"][c] # Absent
  THEN rate_limits.users["alice"][c].per_minute
  ELSE rate_limits.global[c].per_minute

\* C15: under a fixed rule per_minute = N >= 1, whatever the interleaving
\* of alice's handlers, the timestamps recorded for alice and a type inside
\* the trailing 60 seconds (now - ts < 60) never number more than N.
C15_NoBurstBypass ==
  \A c \in {"normal", "nonnormal"} :
     /\ BurstLimit(c) >= 1
     /\ InTrailing("alice", c, MINUTE_WINDOW) <= BurstLimit(c)

\* C15 witness: with N = 1, two of alice's t commands are being handled at
\* the same instant: the first is suspended before its LLM call with its
\* timestamp on record, the second was denied
C15_Witness ==
  /\ BurstLimit("normal") = 1
  /\ tasks[1].cmd = "t" /\ tasks[1].pc = "thinking" /\ tasks[1].recorded = 1
  /\ tasks[2].cmd = "t" /\ tasks[2].pc = "send_denied"
  /\ tasks[2].n = tasks[1].n + 1
  /\ user_messages["alice"]["normal"] = <<now>>

\* --------------------------------------------- claims on a failed LLM call
\* the LLM client fails in this step of handler h
ClientFails(h) == text_generation(h, FALSE)

\* what the claim says of a failed call apart from the length: the failure
\* becomes a reply, the user's turn is the last entry, no assistant turn
\* was added, the other users' histories are as before; and the handler
\* that sends the reply returns, so that its slot takes the next command
FailureIsReported(h) ==
  /\ ClientFails(h) =>
       LET u == tasks[h].user
           before == History(conversation_history, u)
           after == History(conversation_history', u)
       IN /\ tasks'[h].pc = "send_error"
          /\ Len(after) >= 1
          /\ after[Len(after)] = [role |-> "user", content |-> tasks[h].n]
          /\ \A i \in 1..(Len(after) - 1) :
               after[i] = before[i + Len(before) + 1 - Len(after)]
          /\ \A w \in DOMAIN conversation_history \ {u} :
               conversation_history'[w] = conversation_history[w]
  /\ (handler_return(h) /\ tasks[h].pc = "send_error") =>
       /\ tasks'[h].pc = "done"
       /\ tasks'[h].sent = <<"send_error">>
       /\ conversation_history' = conversation_history

\* C16 (as claimed): when the LLM client fails the failure is turned into
\* a reply, the handler completes, the user's message stays in the history
\* with no assistant entry after it, and the history has grown by exactly
\* one entry.
C16_FailureGrowsHistoryByOne ==
  [][ \A h \in HistSlots :
        /\ FailureIsReported(h)
        /\ ClientFails(h) =>
             Len(History(conversation_history', tasks[h].user)) =
               Len(History(conversation_history, tasks[h].user)) + 1 ]_vars

\* C16 (amended): as claimed, but the history grows by exactly one entry
\* only below the cap: a history of MAX_HISTORY_LENGTH entries or more is
\* cut back to MAX_HISTORY_LENGTH, its oldest entries making room for the
\* user's message.
C16_FailureAppendsUserTurn ==
  [][ \A h \in HistSlots :
        /\ FailureIsReported(h)
        /\ ClientFails(h) =>
             LET before == Len(History(conversation_history, tasks[h].user))
                 after == Len(History(conversation_history', tasks[h].user))
             IN IF before < MAX_HISTORY_LENGTH
                THEN after = before + 1
                ELSE after = MAX_HISTORY_LENGTH ]_vars

\* C16 witness: a call of alice failed when her history was full; the
\* history still holds MAX_HISTORY_LENGTH entries, the last one her
\* message, and the reply that reports the failure is on its way
C16_Witness ==
  /\ tasks[1].pc = "send_error" /\ tasks[1].dispatched = 1
  /\ Len(History(conversation_history, "alice")) = MAX_HISTORY_LENGTH
  /\ conversation_history["alice"][MAX_HISTORY_LENGTH] =
       [role |-> "user", content |-> tasks[1].n]
  /\ tasks[1].n > MAX_HISTORY_LENGTH \div 2

\* ------------------------------------- specification: the acceptance gate
\* alice, whose acceptance is missing, 31 days old or a day old, sends each
\* of the eight commands and answers her prompts
GatewaySlots == {1}
GatewayViews == {1}
GatewayStart == StartTime + (ACCEPTANCE_DAYS + 1) * SECONDS_PER_DAY
GatewayAcceptances == {None, StartTime, GatewayStart - SECONDS_PER_DAY}

InitGateway ==
  /\ now = GatewayStart
  /\ loop_wake = GatewayStart
  /\ \E a \in GatewayAcceptances :
       load_persistent_data(DefaultRateLimits, DefaultBotState,
                            [NoAcceptances EXCEPT !["alice"] = a])

NextGateway ==
  \/ \E h \in GatewaySlots, cmd \in CommandNames :
       /\ invocations < GatewayRequests
       /\ process_chat_command(h, "slash", "alice", cmd, TRUE, "none")
  \/ \E h \in GatewaySlots, ok \in BOOLEAN : text_generation(h, ok)
  \/ \E h \in GatewaySlots, ok \in BOOLEAN : image_generation(h, ok)
  \/ \E h \in GatewaySlots : handler_return(h)
  \/ \E h \in GatewaySlots, v \in GatewayViews : accept_button(h, v, "alice")
  \/ \E h \in GatewaySlots : accept_resume(h)
  \/ \E v \in GatewayViews : cancel_button(v, "alice")

SpecGateway == InitGateway /\ [][NextGateway]_vars

TutorTypes == {"normal", "plus", "minus"}
ImageTypes == {"image", "imageplus"}
NonTutorTypes == {"nonnormal", "nonplus", "nonminus"}
TypeOf(cmd) == COMMAND_MAP[cmd].command_type

\* C17: a tutor-prompt command (normal, plus, minus) or an image command
\* (image, imageplus) of a user whose acceptance is missing or outdated is
\* recorded and goes on to its client call with no prompt shown; a
\* non-tutor text command (nonnormal, nonplus, nonminus) of such a user is
\* stopped for the prompt, unrecorded, and none is ever dispatched while
\* its user's acceptance is missing or outdated.
C17_GateOnlyForNonTutorText ==
  [][ \A h \in GatewaySlots :
        /\ \A cmd \in CommandNames :
             (/\ process_chat_command(h, "slash", "alice", cmd, TRUE, "none")
              /\ AcceptanceLapsed("alice"))
             => IF TypeOf(cmd) \in TutorTypes \cup ImageTypes
                THEN /\ tasks'[h].recorded = 1
                     /\ tasks'[h].pc =
                          IF TypeOf(cmd) \in ImageTypes
                          THEN "img_thinking" ELSE "thinking"
                     /\ views' = views
                ELSE /\ TypeOf(cmd) \in NonTutorTypes
                     /\ tasks'[h].pc = "send_prompt"
                     /\ tasks'[h].recorded = 0
                     /\ user_messages' = user_messages
        /\ (handler_return(h) /\ views'[h] # views[h] /\ views'[h].open) =>
             TypeOf(tasks[h].cmd) \in NonTutorTypes
        /\ (tasks[h].dispatched = 0 /\ tasks'[h].dispatched = 1) =>
             \/ TypeOf(tasks[h].cmd) \in TutorTypes \cup ImageTypes
             \/ ~AcceptanceLapsed(tasks[h].user) ]_vars

\* C17 witness: alice's acceptance is 31 days old; her image command has
\* reached the image client and no prompt was ever opened
C17_Witness ==
  /\ user_acceptances["alice"] = StartTime
  /\ AcceptanceLapsed("alice")
  /\ tasks[1].cmd = "t_image_plus" /\ tasks[1].dispatched = 1
  /\ tasks[1].recorded = 1
  /\ views[1] = NoView

\* ------------------------------------------ claims on the prompt's buttons
\* the tables the claims on the prompt speak of are as before the step
PromptDataUnchanged ==
  /\ user_acceptances' = user_acceptances
  /\ user_acceptances_file' = user_acceptances_file
  /\ user_messages' = user_messages
  /\ conversation_history' = conversation_history

\* a press by an identity other than the prompt's user changes nothing:
\* the prompt stays open and its command is not resumed
StrangerPressChangesNothing ==
  \A v \in PipeViews, p \in PipePressers :
     /\ (p # views[v].user_id /\ \E h \in PipeSlots : accept_button(h, v, p)) =>
          /\ PromptDataUnchanged
          /\ views'[v].open
          /\ views'[v].resumed = views[v].resumed
          /\ \A h \in PipeSlots : tasks'[h].pc # "accept_send"
          /\ last'.reply = "not_for_you"
     /\ (p # views[v].user_id /\ cancel_button(v, p)) =>
          /\ PromptDataUnchanged
          /\ views'[v].open
          /\ views'[v].resumed = views[v].resumed
          /\ tasks' = tasks
          /\ last'.reply = "not_for_you"

\* the requester's Cancel closes the prompt and changes no table
CancelEndsFlow ==
  \A v \in PipeViews, p \in PipePressers :
     (p = views[v].user_id /\ cancel_button(v, p)) =>
        /\ PromptDataUnchanged
        /\ ~views'[v].open
        /\ last'.reply = "cancelled"

\* handler h carries the command of prompt v, which its user cancelled
CarriesCancelled(h, v) ==
  /\ views[v].cancelled
  /\ tasks[h].view = v /\ tasks[h].view_n = views[v].n

\* C18 (as claimed): Accept or Cancel pressed by another identity than the
\* prompt's user changes no state, the prompt stays open and the command is
\* not resumed; Cancel pressed by the prompt's user ends the flow with the
\* acceptances, the usage log and the histories unchanged, and the command
\* of a prompt that its user cancelled is never dispatched.
C18_CancelledNeverDispatched ==
  [][ /\ StrangerPressChangesNothing
      /\ CancelEndsFlow
      /\ \A h \in PipeSlots, v \in PipeViews :
           CarriesCancelled(h, v) =>
             ~(tasks[h].dispatched = 0 /\ tasks'[h].dispatched = 1) ]_vars

\* the part of C18 on the press itself
C18_PressesAlone ==
  [][ StrangerPressChangesNothing /\ CancelEndsFlow ]_vars

\* ------------------------------------ specification: the prompt's resume
\* alice sends non-tutor text commands, with a query or with a file alone,
\* under global rules of one tn and two tn_plus a minute; she and bob
\* press Accept on her prompt, and a second press can come while the first
\* one's command is still being handled
ResumeChatSlots == {1}
ResumeSlots == {1, 2}
ResumeViews == {1}
\* (command, query given, attachment)
ResumeInputs ==
  {<<"tn", TRUE, "none">>, <<"tn", FALSE, "file">>, <<"tn_plus", TRUE, "none">>}
ResumePressers == {"alice", "bob"}
ResumeTicks == {30}

InitResume ==
  /\ now = StartTime
  /\ loop_wake = StartTime
  /\ load_persistent_data(
       [DefaultRateLimits EXCEPT
          !.global["nonnormal"] = Rule(1, None, None, None),
          !.global["nonplus"] = Rule(2, None, None, None)],
       DefaultBotState, NoAcceptances)

NextResume ==
  \/ \E h \in ResumeChatSlots, inp \in ResumeInputs :
       /\ invocations < ResumeRequests
       /\ process_chat_command(h, "slash", "alice", inp[1], inp[2], inp[3])
  \/ \E h \in ResumeSlots : process_attachments(h)
  \/ \E h \in ResumeSlots, ok \in BOOLEAN : text_generation(h, ok)
  \/ \E h \in ResumeSlots : handler_return(h)
  \/ \E h \in ResumeSlots, v \in ResumeViews, p \in ResumePressers :
       accept_button(h, v, p)
  \/ \E h \in ResumeSlots : accept_resume(h)
  \/ \E d \in ResumeTicks : now + d <= StartTime + ResumeHorizon /\ Tick(d)

SpecResume == InitResume /\ [][NextResume]_vars

\* the requester's Accept on prompt v is taken by handler h in this step
AcceptedBy(h, v) ==
  \E p \in ResumePressers : p = views[v].user_id /\ accept_button(h, v, p)

\* the log of (u, c) after the step is the log before it, less what is an
\* hour old, with `extra` at its end
LogGrowsBy(u, c, extra) ==
  user_messages'[u][c] =
    SelectSeq(user_messages[u][c], LAMBDA ts : now - ts < HOUR_WINDOW) \o extra

\* C19: the requester's Accept stores the acceptance of this instant and
\* writes it to the file in the step of the press, with the command not yet
\* resumed and the handler holding the prompt's own user, command, query
\* and attachment; the resume then handles exactly these with the
\* acceptance in store and on file: its verdict is that of the rate
\* limiter on the log as it is now, it is not stopped for
\* the prompt again, and it records one timestamp and goes on to the LLM
\* call exactly when that verdict allows it, being denied otherwise.
C19_AcceptStoresThenResumes ==
  [][ /\ \A h \in ResumeSlots, v \in ResumeViews :
           AcceptedBy(h, v) =>
              /\ user_acceptances'[views[v].user_id] = now
              /\ user_acceptances_file' = user_acceptances'
              /\ user_messages' = user_messages
              /\ conversation_history' = conversation_history
              /\ views'[v].resumed = views[v].resumed
              /\ tasks'[h].pc = "accept_send"
              /\ tasks'[h].recorded = 0 /\ tasks'[h].dispatched = 0
              /\ tasks'[h].user = views[v].user_id
              /\ tasks'[h].cmd = views[v].cmd
              /\ tasks'[h].query = views[v].query
              /\ tasks'[h].attach = views[v].attach
      /\ \A h \in ResumeSlots :
           accept_resume(h) =>
              LET u == tasks[h].user
                  c == COMMAND_MAP[tasks[h].cmd].command_type
              IN /\ user_acceptances[u] # None
                 /\ user_acceptances_file[u] = user_acceptances[u]
                 /\ tasks'[h].user = u
                 /\ tasks'[h].cmd = tasks[h].cmd
                 /\ tasks'[h].query = tasks[h].query
                 /\ tasks'[h].attach = tasks[h].attach
                 /\ tasks'[h].can_proceed = NothingFilled(u, c)
                 /\ tasks'[h].pc # "send_prompt"
                 /\ IF NothingFilled(u, c)
                    THEN /\ tasks'[h].recorded = 1
                         /\ LogGrowsBy(u, c, <<now>>)
                         /\ tasks'[h].pc =
                              IF tasks[h].attach # "none" THEN "attachments"
                              ELSE "thinking"
                    ELSE /\ tasks'[h].recorded = 0
                         /\ LogGrowsBy(u, c, <<>>)
                         /\ tasks'[h].pc = "send_denied"
      /\ \A h \in ResumeSlots :
           (tasks[h].path = "view" /\ tasks[h].pc \in {"thinking", "attachments"}) =>
              \/ tasks'[h] = tasks[h]
              \/ tasks'[h].pc = "thinking" /\ tasks[h].pc = "attachments"
              \/ tasks'[h].dispatched = 1 ]_vars

\* C19 witness: alice pressed Accept twice on the prompt of her first
\* command; the first resume was recorded and has called the LLM, the
\* second met a fresh check that found the minute's one request used
C19_Witness ==
  /\ user_acceptances["alice"] # None
  /\ user_acceptances_file["alice"] = user_acceptances["alice"]
  /\ tasks[1].path = "view" /\ tasks[1].dispatched = 1 /\ tasks[1].recorded = 1
  /\ tasks[2].path = "view" /\ tasks[2].pc = "send_denied"
  /\ tasks[2].recorded = 0
  /\ Len(user_messages["alice"]["nonnormal"]) = 1

\* ------------------------------------------------ specification: clear
\* alice and bob send the tutor command t, answered or failed, and clear
\* their histories; mod, who never sends a command, clears too; a global
\* rule is in force and alice's acceptance is on file
ClearSlots == {1}
ClearSenders == {"alice", "bob"}
ClearUsers == {"alice", "bob", "mod"}
ClearRule == Rule(ClearRequests, None, None, None)

InitClear ==
  /\ now = StartTime
  /\ loop_wake = StartTime
  /\ load_persistent_data(
       [DefaultRateLimits EXCEPT !.global["normal"] = ClearRule],
       DefaultBotState,
       [NoAcceptances EXCEPT !["alice"] = StartTime])

NextClear ==
  \/ \E h \in ClearSlots, u \in ClearSenders :
       /\ invocations < ClearRequests
       /\ process_chat_command(h, "slash", u, "t", TRUE, "none")
  \/ \E h \in ClearSlots, ok \in BOOLEAN : text_generation(h, ok)
  \/ \E h \in ClearSlots : handler_return(h)
  \/ \E u \in ClearUsers : clear_history(u)

SpecClear == InitClear /\ [][NextClear]_vars

\* query_poe runs for user u in this step
EntryCreatedFor(u) ==
  \E h \in ClearSlots, ok \in BOOLEAN :
     tasks[h].user = u /\ text_generation(h, ok)

\* C20: no user has a history entry at start-up, and a user has one from
\* the step in which query_poe first runs for them, for good; clear(u)
\* leaves u's history empty and leaves the other users' histories, the
\* usage log, the rate-limit table, the bot state and the acceptances, in
\* memory and on file, as they were; it answers 'no history yet' exactly
\* when u has no entry, that is when none was ever created for u, and
\* 'cleared' otherwise.
C20_ClearEmptiesOnlyTheUsersHistory ==
  /\ DOMAIN conversation_history = {}
  /\ [][ /\ \A u \in Users :
              /\ u \in DOMAIN conversation_history' <=>
                   (u \in DOMAIN conversation_history \/ EntryCreatedFor(u))
              /\ EntryCreatedFor(u) => Len(conversation_history'[u]) >= 1
         /\ \A u \in ClearUsers :
              clear_history(u) =>
                 /\ History(conversation_history', u) = <<>>
                 /\ \A w \in Users \ {u} :
                       History(conversation_history', w) =
                         History(conversation_history, w)
                 /\ user_messages' = user_messages
                 /\ rate_limits' = rate_limits
                 /\ rate_limits_file' = rate_limits_file
                 /\ bot_state' = bot_state
                 /\ bot_state_file' = bot_state_file
                 /\ user_acceptances' = user_acceptances
                 /\ user_acceptances_file' = user_acceptances_file
                 /\ last'.reply \in {"no_history", "cleared"}
                 /\ last'.reply = "no_history" <=>
                      u \notin DOMAIN conversation_history ]_vars

\* C20 witness: alice has just cleared a history that held entries while
\* bob's holds his, the usage log holds both users' timestamps, and mod,
\* who never had an entry, was told so before
C20_Witness ==
  /\ last.op = "clear_history" /\ last.user = "alice"
  /\ last.reply = "cleared" /\ last.changed
  /\ History(conversation_history, "alice") = <<>>
  /\ Len(History(conversation_history, "bob")) = 2
  /\ Len(user_messages["alice"]["normal"]) >= 1
  /\ Len(user_messages["bob"]["normal"]) >= 1
  /\ "mod" \notin DOMAIN conversation_history

\* ------------------------------------------ claims on the persisted files
\* C21 (as claimed): in every state, each of which is a point where another
\* handler or the background loop can run, the three files hold what the
\* three tables hold in memory: rate_limits.json the rate limits,
\* bot_state.json the bot state, user_acceptances.json the acceptances.
C21_FilesEqualMemory ==
  /\ rate_limits_file = rate_limits
  /\ bot_state_file = bot_state
  /\ user_acceptances_file = user_acceptances

\* the part of C21 on the two tables that no handler leaves unsaved
C21_LimitsAndAcceptancesSaved ==
  /\ rate_limits_file = rate_limits
  /\ user_acceptances_file = user_acceptances

\* ------------------------------------------------ claims on the race
\* a handling of a chat command by handler h begins in this step of the
\* burst specification
BurstHandlingBegins(h) ==
  \/ \E cmd \in BurstCommands :
       process_chat_command(h, "slash", "alice", cmd, TRUE, "none")
  \/ accept_resume(h)

\* handler h has been allowed and is suspended before its LLM call
AllowedInFlight(h) == tasks[h].pc = "thinking" /\ tasks[h].can_proceed

TimerSlots == {1}
TimerMinutes == {0, 1, 2}
TimerTicks == {30, 60}

InitTimer ==
  /\ now = StartTime
  /\ loop_wake = StartTime
  /\ load_persistent_data(DefaultRateLimits, DefaultBotState, NoAcceptances)

TimerTick == \E d \in TimerTicks : now + d <= StartTime + TimerHorizon /\ Tick(d)

NextTimer ==
  \/ \E h \in TimerSlots, m \in TimerMinutes :
       /\ now <= StartTime + TimerDisableBy
       /\ admin_toggle_bot(h, "admin", m)
  \/ \E h \in TimerSlots : admin_toggle_bot_save(h)
  \/ check_bot_state_loop
  \/ TimerTick

SpecTimer ==
  /\ InitTimer
  /\ [][NextTimer]_vars
  /\ WF_vars(TimerTick)
  /\ WF_vars(check_bot_state_loop)
  /\ \A h \in TimerSlots : WF_vars(admin_toggle_bot_save(h))

\* the admin disables the bot no more
NoFurtherDisable ==
  /\ now > StartTime + TimerDisableBy
  /\ \A h \in TimerSlots : tasks[h].pc # "toggle_send"

DisabledWithDeadline == ~bot_state.enabled /\ bot_state.disable_until # None

ReenabledAndSaved ==
  /\ bot_state = [enabled |-> TRUE, disable_until |-> None]
  /\ bot_state_file = bot_state

\* C23: once the bot is disabled with a deadline and the admin disables it
\* no more, then with no message and no enable command at all the bot is
\* eventually enabled, with disable_until None, in memory and in
\* bot_state.json, by the background loop alone.
C23_TimerReenables ==
  (NoFurtherDisable /\ DisabledWithDeadline) ~> ReenabledAndSaved

\* C23 witness: the loop has just re-enabled the bot and saved it, at or
\* after a deadline that the admin had set
C23_Witness ==
  /\ last.op = "check_bot_state_loop" /\ last.changed /\ last.ok
  /\ ReenabledAndSaved
  /\ now > StartTime + TimerDisableBy
  /\ tasks[1].sent = <<"disabled">> /\ tasks[1].minutes > 0

\* ---------------------------------------------- specification: pruning
\* alice and bob send the tutor commands t and t_plus over an hour and a
\* half; no rule is in force, so every command is recorded
PruneSlots == {1}
PruneSenders == {"alice", "bob"}
PruneCommands == {"t", "t_plus"}
PruneTicks == {1800}

InitPrune ==
  /\ now = StartTime
  /\ loop_wake = StartTime
  /\ load_persistent_data(DefaultRateLimits, DefaultBotState, NoAcceptances)

NextPrune ==
  \/ \E h \in PruneSlots, u \in PruneSenders, cmd \in PruneCommands :
       /\ invocations < PruneRequests
       /\ process_chat_command(h, "slash", u, cmd, TRUE, "none")
  \/ \E h \in PruneSlots : text_generation(h, TRUE)
  \/ \E h \in PruneSlots : handler_return(h)
  \/ \E d \in PruneTicks : now + d <= StartTime + PruneHorizon /\ Tick(d)

SpecPrune == InitPrune /\ [][NextPrune]_vars

\* check_rate_limit is called for user u and command cmd in this step
CheckCalled(u, cmd) ==
  \E h \in PruneSlots : process_chat_command(h, "slash", u, cmd, TRUE, "none")

NonDecreasing(s) == \A i \in 1..Len(s) - 1 : s[i] <= s[i + 1]

\* the timestamps of s that are under an hour old, in the order of s
YoungerThanAnHour(s) ==
  LET Young(ts) == now - ts < HOUR_WINDOW IN SelectSeq(s, Young)

\* C24: in the step of a check, for every user and every command type,
\* the caller's or not, the usage log afterwards holds no timestamp that is
\* 3600 seconds old or older, holds every timestamp it held that is younger
\* than that, in the same order (followed, for the caller's own type, by
\* the timestamp that the handling records), and is in non-decreasing
\* order.
C24_CheckPrunesEveryLog ==
  [][ \A u \in PruneSenders, cmd \in PruneCommands :
        CheckCalled(u, cmd) =>
          \A w \in Users, c \in CommandTypes :
             /\ \A i \in 1..Len(user_messages'[w][c]) :
                   now - user_messages'[w][c][i] < HOUR_WINDOW
             /\ user_messages'[w][c] =
                  YoungerThanAnHour(user_messages[w][c]) \o
                    (IF w = u /\ c = COMMAND_MAP[cmd].command_type
                     THEN <<now>> ELSE <<>>)
             /\ NonDecreasing(user_messages'[w][c]) ]_vars

\* C24 witness: bob's command t_plus, checked an hour after alice's first
\* t, has removed that timestamp of alice's, exactly 3600 seconds old, and
\* kept her second one
C24_Witness ==
  /\ now = StartTime + HOUR_WINDOW
  /\ tasks[1].user = "bob" /\ tasks[1].cmd = "t_plus" /\ tasks[1].pc = "thinking"
  /\ user_messages["alice"]["normal"] = <<StartTime + 1800>>
  /\ user_messages["bob"]["plus"] = <<now>>
  /\ Len(History(conversation_history, "alice")) = 4

\* ------------------------------------------------- the process restarts
\* a file that save_json has opened with mode 'w', which empties it, and
\* has not finished writing
Truncated == [truncated |-> TRUE]

\* load_json: the document read, or the default when json.load raises
load_json(file, default) == IF file = Truncated THEN default ELSE file

\* a new process: the module's globals are built afresh (lines 37-50) and
\* on_ready's load_persistent_data reads the three files
start_process(rl_file, bs_file, ua_file) ==
  /\ rate_limits' = load_json(rl_file, DefaultRateLimits)
  /\ bot_state' = load_json(bs_file, DefaultBotState)
  /\ user_acceptances' = load_json(ua_file, NoAcceptances)
  /\ user_messages' = [u \in Users |-> [c \in CommandTypes |-> <<>>]]
  /\ conversation_history' = <<>>
  /\ tasks' = [h \in Slots |-> IdleTask]
  /\ views' = [h \in Slots |-> NoView]
  /\ loop_wake' = now
  /\ last' = [op |-> "restart", user |-> "none", ok |-> TRUE,
              changed |-> FALSE, reply |-> "none"]
  /\ UNCHANGED <<now, invocations>>

\* the process stops while every handler is suspended or done, and starts
\* again
restart ==
  /\ start_process(rate_limits_file, bot_state_file, user_acceptances_file)
  /\ UNCHANGED <<rate_limits_file, bot_state_file, user_acceptances_file>>

SavedFiles == {"rate_limits", "bot_state"}

\* the process is killed inside save_json, between open(filename, 'w') and
\* the end of json.dump, while an admin's limit command (file
\* "rate_limits") or enable command (file "bot_state") is being handled,
\* and starts again
killed_in_save_json(file) ==
  /\ rate_limits_file' =
       IF file = "rate_limits" THEN Truncated ELSE rate_limits_file
  /\ bot_state_file' =
       IF file = "bot_state" THEN Truncated ELSE bot_state_file
  /\ user_acceptances_file' = user_acceptances_file
  /\ start_process(rate_limits_file', bot_state_file', user_acceptances_file')

\* ---------------------------------------------- specification: restart
\* the admin sets a global rule, disables and enables the bot; alice sends
\* t and tn and accepts the prompt; the process restarts at any time
RestartSlots == {1}
RestartCommands == {"t", "tn"}
RestartNames == {"normal", "plus"}
RestartMinutes == {0, 1}
RestartTicks == {30}

InitRestart ==
  /\ now = StartTime
  /\ loop_wake = StartTime
  /\ load_persistent_data(DefaultRateLimits, DefaultBotState, NoAcceptances)

NextRestart ==
  \/ \E name \in RestartNames : admin_set_limit("admin", "global", name, 1, 5, 5)
  \/ \E h \in RestartSlots, m \in RestartMinutes : admin_toggle_bot(h, "admin", m)
  \/ \E h \in RestartSlots : admin_toggle_bot_save(h)
  \/ admin_enable_bot("admin")
  \/ \E h \in RestartSlots, cmd \in RestartCommands :
       /\ invocations < RestartRequests
       /\ process_chat_command(h, "slash", "alice", cmd, TRUE, "none")
  \/ \E h \in RestartSlots : text_generation(h, TRUE)
  \/ \E h \in RestartSlots : handler_return(h)
  \/ \E h \in RestartSlots, v \in RestartSlots : accept_button(h, v, "alice")
  \/ \E h \in RestartSlots : accept_resume(h)
  \/ restart
  \/ \E f \in SavedFiles : killed_in_save_json(f)
  \/ \E d \in RestartTicks : now + d <= StartTime + RestartHorizon /\ Tick(d)

SpecRestart == InitRestart /\ [][NextRestart]_vars

\* what the claim says a restart leaves: empty histories and usage logs,
\* and the three tables as the completed operations left them, which is
\* as they are in memory unless admin_toggle_bot is still in flight
NothingCompletedIsLost ==
  /\ conversation_history' = <<>>
  /\ \A u \in Users, c \in CommandTypes : user_messages'[u][c] = <<>>
  /\ rate_limits' = rate_limits
  /\ user_acceptances' = user_acceptances
  /\ (\A h \in Slots : tasks[h].pc # "toggle_send") => bot_state' = bot_state

\* C25 (as claimed): a restart at any point, a kill in the middle of a
\* handler's save included, leaves the histories and the usage logs empty
\* and the rate limits, the bot state and the acceptances as the last
\* completed operation left them.
C25_RestartLosesNothingCompleted ==
  [][ (restart \/ \E f \in SavedFiles : killed_in_save_json(f)) =>
        NothingCompletedIsLost ]_vars

\* the part of C25 on a process that stops between two handler steps
C25_RestartBetweenStepsLosesNothing ==
  [][ restart => NothingCompletedIsLost ]_vars

\* -------------------------------------------- specification: isolation
\* alice and bob send the tutor commands t and t_plus under global rules
\* for both types
IsoSlots == {1}
IsoUsers == {"alice", "bob"}
IsoCommands == {"t", "t_plus"}
IsoTicks == {30}

InitIso ==
  /\ now = StartTime
  /\ loop_wake = StartTime
  /\ load_persistent_data(
       [DefaultRateLimits EXCEPT !.global["normal"] = Rule(1, 2, None, None),
                                 !.global["plus"] = Rule(1, None, 2, None)],
       DefaultBotState, NoAcceptances)

NextIso ==
  \/ \E h \in IsoSlots, u \in IsoUsers, cmd \in IsoCommands :
       /\ invocations < IsoRequests
       /\ process_chat_command(h, "slash", u, cmd, TRUE, "none")
  \/ \E h \in IsoSlots : text_generation(h, TRUE)
  \/ \E h \in IsoSlots : handler_return(h)
  \/ \E d \in IsoTicks : now + d <= StartTime + IsoHorizon /\ Tick(d)

SpecIso == InitIso /\ [][NextIso]_vars

\* the usage log with every list but that of (b, t) emptied, and the rate
\* limits with every rule but those for (b, t) removed
OnlyLogOf(b, t) ==
  [u \in Users |-> [c \in CommandTypes |->
     IF u = b /\ c = t THEN user_messages[u][c] ELSE <<>>]]

OnlyRulesOf(b, t) ==
  [global |-> [c \in CommandTypes |->
                 IF c = t THEN rate_limits.global[c] ELSE Absent],
   users  |-> [u \in Users |-> [c \in CommandTypes |->
                 IF u = b /\ c = t THEN rate_limits.users[u][c] ELSE Absent]]]

\* C26: the verdict and the reason of check(b, t) are those it gives when
\* every timestamp of another user or another type, and every rule not for
\* (b, t), is taken away: they depend on b's own timestamps for t alone,
\* under a global rule too; and a command of user a and type s leaves the
\* timestamps under an hour old and the rules of every other pair (b, t)
\* as they were. So requests of another user or of another type never
\* change what check(b, t) returns.
C26_CheckSeesOnlyOwnTimestamps ==
  [][ \A h \in IsoSlots, b \in IsoUsers, cmd \in IsoCommands :
        process_chat_command(h, "slash", b, cmd, TRUE, "none") =>
          LET t == COMMAND_MAP[cmd].command_type
              alone == check_rate_limit_ret(
                         rate_limits_after_check(OnlyRulesOf(b, t), b, t, now),
                         OnlyLogOf(b, t), b, t, now)
          IN /\ tasks'[h].can_proceed = alone.can_proceed
             /\ tasks'[h].reason = alone.reason
             /\ tasks'[h].can_proceed = NothingFilled(b, t)
             /\ \A w \in Users, c \in CommandTypes :
                  (w # b \/ c # t) =>
                     /\ YoungerThanAnHour(user_messages'[w][c]) =
                          YoungerThanAnHour(user_messages[w][c])
                     /\ rate_limits'.users[w][c] = rate_limits.users[w][c]
                     /\ rate_limits'.global[c] = rate_limits.global[c] ]_vars

\* C26 witness: with the global rule of one t a minute filled by alice's
\* request of this instant, bob's t of the same instant has been allowed
C26_Witness ==
  /\ rate_limits.global["normal"].per_minute = 1
  /\ user_messages["alice"]["normal"] = <<now>>
  /\ tasks[1].user = "bob" /\ tasks[1].cmd = "t"
  /\ tasks[1].can_proceed /\ tasks[1].pc = "thinking"
  /\ user_messages["bob"]["normal"] = <<now>>

\* ------------------------------------------------ specification: quota
\* alice sends t and t_image with a query, with nothing at all, with a
\* file alone, or with a file whose download fails ("lost"), under global
\* rules of one request a minute
QuotaSlots == {1}
\* (command, query given, attachment)
QuotaInputs ==
  {<<"t", TRUE, "none">>, <<"t", FALSE, "none">>, <<"t", FALSE, "file">>,
   <<"t", FALSE, "lost">>, <<"t_image", TRUE, "none">>,
   <<"t_image", FALSE, "none">>}
QuotaPaths == {"prefix", "slash"}

InitQuota ==
  /\ now = StartTime
  /\ loop_wake = StartTime
  /\ load_persistent_data(
       [DefaultRateLimits EXCEPT !.global["normal"] = Rule(1, None, None, None),
                                 !.global["image"] = Rule(1, None, None, None)],
       DefaultBotState, NoAcceptances)

NextQuota ==
  \/ \E h \in QuotaSlots, path \in QuotaPaths, inp \in QuotaInputs :
       /\ invocations < QuotaRequests
       /\ process_chat_command(h, path, "alice", inp[1], inp[2], inp[3])
  \/ \E h \in QuotaSlots : process_attachments(h)
  \/ \E h \in QuotaSlots, ok \in BOOLEAN : text_generation(h, ok)
  \/ \E h \in QuotaSlots, ok \in BOOLEAN : image_generation(h, ok)
  \/ \E h \in QuotaSlots : handler_return(h)

SpecQuota == InitQuota /\ [][NextQuota]_vars

\* C27 (as claimed): a handling that has recorded a timestamp goes on to
\* call the LLM or image client: none ends, or is about to answer that it
\* was given neither a query nor a usable attachment, with a timestamp
\* recorded and no call made.
C27_QuotaOnlyForDispatched ==
  \A h \in QuotaSlots :
     /\ tasks[h].pc = "send_noinput" => tasks[h].recorded = 0
     /\ (tasks[h].pc = "done" /\ tasks[h].recorded = 1) =>
          tasks[h].dispatched = 1

\* the converse, which the code does keep: no call without a record
C27_DispatchedWereRecorded ==
  \A h \in QuotaSlots : tasks[h].dispatched = 1 => tasks[h].recorded = 1

\* ------------------------------------------- claims on repeated presses
\* the handlers resumed by the prompt that command number n opened and
\* that have called the LLM
DispatchedFor(n) ==
  {h \in ResumeSlots :
     /\ tasks[h].path = "view" /\ tasks[h].view_n = n
     /\ tasks[h].recorded = 1 /\ tasks[h].dispatched = 1}

\* C28 (as claimed): whatever presses of Accept its user makes, one prompt
\* has its command recorded and dispatched at most once: no two handlers
\* resumed by the same prompt have both called the LLM.
C28_PromptDispatchesAtMostOnce ==
  \A n \in 1..ResumeRequests : Cardinality(DispatchedFor(n)) <= 1

\* the bound the rate limiter still puts on the presses: under the rule of
\* one tn a minute the second resume of a tn prompt is denied
C28_SecondResumeMeetsTheRule ==
  \A n \in 1..ResumeRequests :
     \A h \in DispatchedFor(n) :
        tasks[h].cmd = "tn" => DispatchedFor(n) = {h}

\* ------------------------------------------ claims on early re-enabling
DeadlineReached ==
  bot_state.disable_until # None /\ now >= bot_state.disable_until

\* C29: while the bot is disabled, a call of check_bot_state, from a
\* message or from the background loop, made with no deadline set or
\* before the deadline returns false and leaves the bot state and its file
\* as they are; and the bot goes from disabled to enabled only by such a
\* call at or after a deadline that is set, or by an admin's enable
\* command.
C29_NoReenableBeforeDeadline ==
  [][ ~bot_state.enabled =>
        /\ (IsEnabledCall /\ ~DeadlineReached) =>
             /\ bot_state' = bot_state
             /\ bot_state_file' = bot_state_file
             /\ ~last'.ok
        /\ bot_state'.enabled =>
             \/ IsEnabledCall /\ DeadlineReached
             \/ \E a \in BotCallers : is_admin(a) /\ admin_enable_bot(a) ]_vars

\* C29 witness: the bot was disabled for two minutes; a minute later the
\* background loop has run its check, which returned false and changed
\* nothing, the deadline being a minute ahead
C29_Witness ==
  /\ ~bot_state.enabled
  /\ bot_state.disable_until = now + SECONDS_PER_MINUTE
  /\ bot_state_file = bot_state
  /\ last.op = "check_bot_state_loop" /\ ~last.ok /\ ~last.changed
  /\ loop_wake = now + LOOP_SLEEP
  /\ now >= StartTime + SECONDS_PER_MINUTE

====
